---- MODULE Spec2Model ----
(***************************************************************************)
(* Persistence layer of the LUE-LUE card game: the repositories over the   *)
(* D1 store (games, players, chats, chat_messages, claims, cards) and the  *)
(* aggregate reconciliation of GameRepository::update_game.                *)
(*                                                                         *)
(* Every repository method is an operator over a context                   *)
(*     [db, n, log]                                                        *)
(* db is the store, n the number of statements handed to the executor so   *)
(* far in the running call and log the statements themselves.  The         *)
(* executor may fail any statement: the parameter failAt names the ordinal *)
(* of the statement that fails in the call (0: none fails).  A failed      *)
(* statement changes nothing.  An action runs one whole public method and  *)
(* records the call (arguments, outcome, returned value, statements) in the  *)
(* variable call.                                                          *)
(***************************************************************************)
EXTENDS Integers, Sequences, FiniteSets, TLC

VARIABLES games, players, chats, chat_messages, claims, cards, call

vars == <<games, players, chats, chat_messages, claims, cards, call>>

-----------------------------------------------------------------------------
(* Bounds *)

MaxCount == 3      \* cap of chats.number_of_messages
MaxLen == 2        \* longest list carried by a DTO

-----------------------------------------------------------------------------
(* Identifiers and values *)

NONE == "none"     \* an absent identifier (Option<&str>::None, SQL NULL)

\* Option<T> of a DTO field: the empty sequence is None, <<x>> is Some(x).
None == <<>>

Some(x) == <<x>>

IsNone(opt) == Len(opt) = 0

Unwrap(opt) == opt[1]

GameIds == {"g1", "g2"}
ChatIds == {"c1", "c2"}
MsgIds == {"m1", "m2", "m3"}
PlayerIds == {"p1", "p2", "p3"}
Names == {"a", "b"}
ClaimIds == {"q1", "q2"}
CardIds == {"k1"}

RECURSIVE SetToSeq(_)
SetToSeq(S) ==
    IF S = {} THEN <<>>
    ELSE LET x == CHOOSE y \in S : TRUE IN <<x>> \o SetToSeq(S \ {x})

Put(f, k, v) == [x \in DOMAIN f \cup {k} |-> IF x = k THEN v ELSE f[x]]

Drop(f, K) == [x \in DOMAIN f \ K |-> f[x]]

RECURSIVE SeqsUpTo(_, _)
SeqsUpTo(S, n) ==
    IF n = 0 THEN {<<>>}
    ELSE LET shorter == SeqsUpTo(S, n - 1)
         IN shorter \cup {Append(s, x) : s \in {t \in shorter : Len(t) = n - 1}, x \in S}

-----------------------------------------------------------------------------
(* Errors and results *)

OkOutcome ==
    [kind |-> "Ok", message |-> "", received_data |-> NONE, status_code |-> NONE]

\* The thread panics: the call hands no Result back.
PanicOutcome ==
    [kind |-> "Panic", message |-> "index out of bounds", received_data |-> NONE,
     status_code |-> NONE]

\* received_data: NONE or the type of the echoed payload.
DatabaseQueryError(message, received_data, status_code) ==
    [kind |-> "DatabaseQueryError", message |-> message, received_data |-> received_data,
     status_code |-> status_code]

ProcessError(message) ==
    [kind |-> "ProcessError", message |-> message, received_data |-> NONE,
     status_code |-> NONE]

Ok(ctx, v) == [ctx |-> ctx, out |-> OkOutcome, val |-> v]

Err(ctx, e) == [ctx |-> ctx, out |-> e, val |-> NONE]

IsOk(r) == r.out.kind = "Ok"

\* match call.await { Ok(..) => .., Err(..) => .. } is written
\* Match({arms(r) : r \in {call}}): the call is made once, its result r is
\* handed to the arms, and the value of the arm taken is the value of the
\* match.
Match(arms) == CHOOSE taken \in arms : TRUE

-----------------------------------------------------------------------------
(* The query executor *)

DB == [games |-> games, players |-> players, chats |-> chats,
       chat_messages |-> chat_messages, claims |-> claims, cards |-> cards]

NewCtx == [db |-> DB, n |-> 0, log |-> <<>>]

\* prepare(sql).bind(params) followed by run()/first()/all(): one statement.
Issue(ctx, verb, table, key) ==
    [ctx EXCEPT !.n = @ + 1,
                !.log = Append(@, [verb |-> verb, table |-> table, key |-> key])]

ExecFails(ctx, failAt) == ctx.n + 1 = failAt

SetTable(ctx, table, rows) == [ctx EXCEPT !.db[table] = rows]

-----------------------------------------------------------------------------
(* ChatMessageRepository *)

MessageRow(ctx, id) == [id |-> id, chat_id |-> ctx.db.chat_messages[id].chat_id]

MessagesOfChat(d, chat_id) ==
    {m \in DOMAIN d.chat_messages : d.chat_messages[m].chat_id = chat_id}

delete_all_messages_in_chat_KeepRows(ctx, chat_id, failAt) ==
    LET c == Issue(ctx, "DELETE", "chat_messages", chat_id)
    IN IF ExecFails(ctx, failAt)
       THEN Err(c, DatabaseQueryError("executor", NONE, "INTERNAL_SERVER_ERROR"))
       ELSE Ok(c, NONE)

delete_all_messages_in_chat(ctx, chat_id, failAt) ==
    LET c == Issue(ctx, "DELETE", "chat_messages", chat_id)
    IN IF ExecFails(ctx, failAt)
       THEN Err(c, DatabaseQueryError("executor", NONE, "INTERNAL_SERVER_ERROR"))
       ELSE Ok(SetTable(c, "chat_messages",
                        Drop(ctx.db.chat_messages, MessagesOfChat(ctx.db, chat_id))), NONE)

\* DELETE FROM chat_messages WHERE id = ? RETURNING *: the row is selected by
\* its id alone.
delete_message_by_id(ctx, message_id, failAt) ==
    LET c == Issue(ctx, "DELETE", "chat_messages", message_id)
    IN IF ExecFails(ctx, failAt)
       THEN Err(c, DatabaseQueryError("executor", NONE, "INTERNAL_SERVER_ERROR"))
       ELSE IF message_id \notin DOMAIN ctx.db.chat_messages
       THEN Err(c, DatabaseQueryError("Message not found", NONE, "NOT_FOUND"))
       ELSE Ok(SetTable(c, "chat_messages", Drop(ctx.db.chat_messages, {message_id})),
               MessageRow(ctx, message_id))

get_all_messages_in_chat_Draining(ctx, chat_id, failAt) ==
    LET c == Issue(ctx, "SELECT", "chat_messages", chat_id)
    IN IF ExecFails(ctx, failAt)
       THEN Err(c, DatabaseQueryError("executor", NONE, "INTERNAL_SERVER_ERROR"))
       ELSE Ok(SetTable(c, "chat_messages",
                        Drop(ctx.db.chat_messages, MessagesOfChat(ctx.db, chat_id))),
               SetToSeq({MessageRow(ctx, m) : m \in MessagesOfChat(ctx.db, chat_id)}))

get_all_messages_in_chat(ctx, chat_id, failAt) ==
    LET c == Issue(ctx, "SELECT", "chat_messages", chat_id)
    IN IF ExecFails(ctx, failAt)
       THEN Err(c, DatabaseQueryError("executor", NONE, "INTERNAL_SERVER_ERROR"))
       ELSE Ok(c, SetToSeq({MessageRow(ctx, m) : m \in MessagesOfChat(ctx.db, chat_id)}))

\* INSERT INTO chat_messages (id, ..., chat_id): the row carries the chat_id
\* of the message; ids are unique per table, a second row with the id is
\* refused by the store.
save_message(ctx, message, failAt) ==
    LET c == Issue(ctx, "INSERT", "chat_messages", message.id)
    IN IF ExecFails(ctx, failAt) \/ message.id \in DOMAIN ctx.db.chat_messages
       THEN Err(c, DatabaseQueryError("executor", NONE, "INTERNAL_SERVER_ERROR"))
       ELSE Ok(SetTable(c, "chat_messages",
                        Put(ctx.db.chat_messages, message.id, [chat_id |-> message.chat_id])),
               message)

-----------------------------------------------------------------------------
(* ChatRepository *)

SelectChats_ChatIdFirst(d, game_id, chat_id) ==
    {c \in DOMAIN d.chats :
        IF chat_id # NONE THEN c = chat_id ELSE d.chats[c].game_id = game_id}

\* Rows of chats selected by the optional game_id / chat_id filter, the
\* game_id taking precedence.
SelectChats(d, game_id, chat_id) ==
    {c \in DOMAIN d.chats :
        IF game_id # NONE THEN d.chats[c].game_id = game_id ELSE c = chat_id}

get_number_of_messages_of_chat(ctx, game_id, chat_id, failAt) ==
    IF game_id = NONE /\ chat_id = NONE
    THEN Err(ctx, ProcessError("Invalid data input"))
    ELSE LET c == Issue(ctx, "SELECT", "chats", IF game_id # NONE THEN game_id ELSE chat_id)
             rows == SelectChats(ctx.db, game_id, chat_id)
         IN IF ExecFails(ctx, failAt)
            THEN Err(c, ProcessError("executor"))
            ELSE IF rows = {}
            THEN Err(c, DatabaseQueryError("Chat not found", NONE, "NOT_FOUND"))
            ELSE Ok(c, ctx.db.chats[CHOOSE r \in rows : TRUE].number_of_messages)

update_number_of_messages_of_chat(ctx, updated_number_of_messages, chat_id, game_id, failAt) ==
    IF game_id = NONE /\ chat_id = NONE
    THEN Err(ctx, ProcessError("Invalid data input"))
    ELSE LET c == Issue(ctx, "UPDATE", "chats", IF game_id # NONE THEN game_id ELSE chat_id)
             rows == SelectChats(ctx.db, game_id, chat_id)
             written == [r \in DOMAIN ctx.db.chats |->
                            IF r \in rows
                            THEN [ctx.db.chats[r] EXCEPT
                                     !.number_of_messages = updated_number_of_messages]
                            ELSE ctx.db.chats[r]]
         IN IF ExecFails(ctx, failAt)
            THEN Err(c, ProcessError("executor"))
            ELSE IF rows = {}
            THEN Err(c, ProcessError("Chat not found"))
            ELSE Ok(SetTable(c, "chats", written), updated_number_of_messages)

\* DELETE FROM chats WHERE game_id = ? or WHERE id = ?, the game_id taking
\* precedence.
delete_chat(ctx, chat_id, game_id, failAt) ==
    IF game_id = NONE /\ chat_id = NONE
    THEN Err(ctx, DatabaseQueryError("Invalid function input", NONE, "BAD_REQUEST"))
    ELSE LET c == Issue(ctx, "DELETE", "chats", IF game_id # NONE THEN game_id ELSE chat_id)
         IN IF ExecFails(ctx, failAt)
            THEN Err(c, DatabaseQueryError("executor", NONE, "INTERNAL_SERVER_ERROR"))
            ELSE Ok(SetTable(c, "chats",
                             Drop(ctx.db.chats, SelectChats(ctx.db, game_id, chat_id))),
                    NONE)

\* UPDATE chats SET number_of_messages = ?1 WHERE id = ?2 RETURNING *, as
\* issued by add_new_message_to_chat itself: the returned row is not looked at.
WriteIncrementedCount(ctx, chat_id, updated_num_of_mess, failAt) ==
    LET c == Issue(ctx, "UPDATE", "chats", chat_id)
    IN IF ExecFails(ctx, failAt)
       THEN Err(c, ProcessError("executor"))
       ELSE IF chat_id \notin DOMAIN ctx.db.chats
       THEN Ok(c, NONE)
       ELSE Ok(SetTable(c, "chats",
                        [ctx.db.chats EXCEPT ![chat_id].number_of_messages = updated_num_of_mess]),
               NONE)

add_new_message_to_chat_SaveOnWriteError(ctx, chat_id, chat_message, failAt) ==
    Match({IF ~IsOk(r1) THEN r1
           ELSE Match({save_message(r2.ctx, chat_message, failAt) :
                       r2 \in {WriteIncrementedCount(r1.ctx, chat_id, r1.val + 1, failAt)}}) :
           r1 \in {get_number_of_messages_of_chat(ctx, NONE, chat_id, failAt)}})

add_new_message_to_chat(ctx, chat_id, chat_message, failAt) ==
    Match({IF ~IsOk(r1) THEN r1
           ELSE Match({IF ~IsOk(r2) THEN r2
                       ELSE save_message(r2.ctx, chat_message, failAt) :
                       r2 \in {WriteIncrementedCount(r1.ctx, chat_id, r1.val + 1, failAt)}}) :
           r1 \in {get_number_of_messages_of_chat(ctx, NONE, chat_id, failAt)}})

CounterIsZero_NoCheck(res) == FALSE

CounterIsZero(res) == res = 0

EchoDiffers_Never(modification_result, nr_of_mes_fetch_result) == FALSE

\* if modification_result != nr_of_mes_fetch_result
EchoDiffers(modification_result, nr_of_mes_fetch_result) ==
    modification_result # nr_of_mes_fetch_result

remove_message_from_chat(ctx, chat_id, message_id, failAt) ==
    Match({IF ~IsOk(r1) THEN r1
           ELSE IF CounterIsZero(r1.val)
           THEN Err(r1.ctx, ProcessError("number of messages can't be negative"))
           ELSE LET nr_of_mes_fetch_result == r1.val - 1
                IN Match({IF ~IsOk(r2) THEN r2
                          ELSE IF EchoDiffers(r2.val, nr_of_mes_fetch_result)
                          THEN Err(r2.ctx, ProcessError("number_of_messages hasn't changed"))
                          ELSE delete_message_by_id(r2.ctx, message_id, failAt) :
                          r2 \in {update_number_of_messages_of_chat(
                                      r1.ctx, nr_of_mes_fetch_result, chat_id, NONE,
                                      failAt)}}) :
           r1 \in {get_number_of_messages_of_chat(ctx, NONE, chat_id, failAt)}})

\* The row of chats decoded into a Chat, before its messages are fetched.
ChatRow(d, id) ==
    [id |-> id, number_of_messages |-> d.chats[id].number_of_messages,
     game_id |-> d.chats[id].game_id, messages |-> <<>>]

\* SELECT * FROM chats with the WHERE clause of the game_id, else of the
\* chat_id, else none; first() hands back one of the selected rows, whose
\* messages are then fetched.
get_chat(ctx, chat_id, game_id, failAt) ==
    LET c == Issue(ctx, "SELECT", "chats", IF game_id # NONE THEN game_id ELSE chat_id)
        rows == IF game_id = NONE /\ chat_id = NONE THEN DOMAIN ctx.db.chats
                ELSE SelectChats(ctx.db, game_id, chat_id)
    IN IF ExecFails(ctx, failAt)
       THEN Err(c, ProcessError("executor"))
       ELSE IF rows = {}
       THEN Err(c, DatabaseQueryError("Couldn't find a 'Chat' instance", NONE, "NOT_FOUND"))
       ELSE LET chat == ChatRow(ctx.db, CHOOSE r \in rows : TRUE)
            IN Match({IF ~IsOk(r) THEN r
                      ELSE Ok(r.ctx, [chat EXCEPT !.messages = r.val]) :
                      r \in {get_all_messages_in_chat(c, chat.id, failAt)}})

-----------------------------------------------------------------------------
(* CardRepository (card_repository.rs is not part of the sources at hand) *)

CardsOwnedBy(d, claim_id, player_id) ==
    {k \in DOMAIN d.cards :
        IF claim_id # NONE THEN d.cards[k].claim_id = claim_id
        ELSE player_id # NONE => d.cards[k].player_id = player_id}

get_all_cards(ctx, claim_id, player_id, failAt) ==
    LET c == Issue(ctx, "SELECT", "cards", IF claim_id # NONE THEN claim_id ELSE player_id)
    IN IF ExecFails(ctx, failAt)
       THEN Err(c, DatabaseQueryError("executor", NONE, "INTERNAL_SERVER_ERROR"))
       ELSE Ok(c, SetToSeq(CardsOwnedBy(ctx.db, claim_id, player_id)))

\* UpdateCardDTO::new(id, None, None, Some(claim_id)) handed to update_card:
\* the card is given to the claim.
update_card(ctx, card_id, claim_id, failAt) ==
    LET c == Issue(ctx, "UPDATE", "cards", card_id)
    IN IF ExecFails(ctx, failAt)
       THEN Err(c, DatabaseQueryError("executor", NONE, "INTERNAL_SERVER_ERROR"))
       ELSE IF card_id \notin DOMAIN ctx.db.cards
       THEN Err(c, DatabaseQueryError("Failed to update card", "UpdateCardDTO",
                                      "INTERNAL_SERVER_ERROR"))
       ELSE Ok(SetTable(c, "cards",
                        [ctx.db.cards EXCEPT ![card_id] =
                            [claim_id |-> claim_id, player_id |-> NONE]]),
               card_id)

-----------------------------------------------------------------------------
(* PlayerRepository *)

PlayerRow(d, id) ==
    [id |-> id, name |-> d.players[id].name, game_id |-> d.players[id].game_id,
     assigned_cards |-> <<>>]

\* INSERT INTO players (id, name, game_id, joined_at): the row carries the
\* game_id of the player object.
add_player(ctx, player, failAt) ==
    LET c == Issue(ctx, "INSERT", "players", player.id)
    IN IF ExecFails(ctx, failAt) \/ player.id \in DOMAIN ctx.db.players
       THEN Err(c, DatabaseQueryError("executor", "Player", "INTERNAL_SERVER_ERROR"))
       ELSE Ok(SetTable(c, "players",
                        Put(ctx.db.players, player.id,
                            [name |-> player.name, game_id |-> player.game_id])),
               [player EXCEPT !.assigned_cards = <<>>])

delete_player(ctx, player_id, failAt) ==
    LET c == Issue(ctx, "DELETE", "players", player_id)
    IN IF ExecFails(ctx, failAt)
       THEN Err(c, DatabaseQueryError("executor", NONE, "INTERNAL_SERVER_ERROR"))
       ELSE Ok(SetTable(c, "players", Drop(ctx.db.players, {player_id})), NONE)

PlayersOf(d, game_id) ==
    {p \in DOMAIN d.players : game_id # NONE => d.players[p].game_id = game_id}

\* for player in players.iter_mut(): one card query per player.
RECURSIVE HydratePlayers(_, _, _)
HydratePlayers(ctx, rows, failAt) ==
    IF rows = <<>> THEN Ok(ctx, <<>>)
    ELSE Match({IF ~IsOk(r)
                THEN Err(r.ctx, DatabaseQueryError(r.out.message, "Player",
                                                   "INTERNAL_SERVER_ERROR"))
                ELSE Match({IF ~IsOk(rest) THEN rest
                            ELSE Ok(rest.ctx,
                                    <<[Head(rows) EXCEPT !.assigned_cards = r.val]>>
                                        \o rest.val) :
                            rest \in {HydratePlayers(r.ctx, Tail(rows), failAt)}}) :
                r \in {get_all_cards(ctx, NONE, Head(rows).id, failAt)}})

get_all_players(ctx, game_id, failAt) ==
    LET c == Issue(ctx, "SELECT", "players", game_id)
    IN IF ExecFails(ctx, failAt)
       THEN Err(c, DatabaseQueryError("executor", NONE, "INTERNAL_SERVER_ERROR"))
       ELSE Match({IF ~IsOk(r) THEN r
                   ELSE IF r.val = <<>>
                   THEN Err(r.ctx, DatabaseQueryError("No players found", NONE, "NOT_FOUND"))
                   ELSE r :
                   r \in {HydratePlayers(c, SetToSeq({PlayerRow(ctx.db, p) :
                                                         p \in PlayersOf(ctx.db, game_id)}),
                                         failAt)}})

-----------------------------------------------------------------------------
(* GameRepository: player reconciliation *)

HasId(list, id) == \E i \in DOMAIN list : list[i].id = id

MandatoryFieldError_BadRequest(message) == DatabaseQueryError(message, NONE, "BAD_REQUEST")

\* The error of a reconciliation step whose field of the DTO is None.
MandatoryFieldError(message) == DatabaseQueryError(message, NONE, "INTERNAL_SERVER_ERROR")

Rewrap_Generic(r) ==
    Err(r.ctx, DatabaseQueryError("Failed to update game in the database",
                                  IF r.out.received_data = NONE THEN NONE
                                  ELSE "UpdateGameDTO",
                                  "INTERNAL_SERVER_ERROR"))

\* Err(err) arms of update_players_in_game and update_claims_of_game: message
\* and status are kept, an echoed payload is replaced by the DTO.
Rewrap(r) ==
    Err(r.ctx, DatabaseQueryError(r.out.message,
                                  IF r.out.received_data = NONE THEN NONE
                                  ELSE "UpdateGameDTO",
                                  r.out.status_code))

IsRemovedPlayer_Never(new_players, player) == FALSE

IsRemovedPlayer(new_players, player) == ~HasId(new_players, player.id)

IsNewPlayer_Always(all_current_players, player) == TRUE

IsNewPlayer(all_current_players, player) == ~HasId(all_current_players, player.id)

RECURSIVE DeleteRemovedPlayers(_, _, _, _)
DeleteRemovedPlayers(ctx, current, new_players, failAt) ==
    IF current = <<>> THEN Ok(ctx, NONE)
    ELSE IF IsRemovedPlayer(new_players, Head(current))
    THEN Match({IF ~IsOk(r) THEN Rewrap(r)
                ELSE DeleteRemovedPlayers(r.ctx, Tail(current), new_players, failAt) :
                r \in {delete_player(ctx, Head(current).id, failAt)}})
    ELSE DeleteRemovedPlayers(ctx, Tail(current), new_players, failAt)

RECURSIVE AddNewPlayers(_, _, _, _)
AddNewPlayers(ctx, new_players, all_current_players, failAt) ==
    IF new_players = <<>> THEN Ok(ctx, NONE)
    ELSE IF IsNewPlayer(all_current_players, Head(new_players))
    THEN Match({IF ~IsOk(r) THEN Rewrap(r)
                ELSE AddNewPlayers(r.ctx, Tail(new_players), all_current_players, failAt) :
                r \in {add_player(ctx, Head(new_players), failAt)}})
    ELSE AddNewPlayers(ctx, Tail(new_players), all_current_players, failAt)

ReturnedPlayers_Desired(all_current_players, new_players) == new_players

\* Ok(all_current_players)
ReturnedPlayers(all_current_players, new_players) == all_current_players

NoPlayers_Never(players_) == FALSE

\* if players.len() == 0
NoPlayers(players_) == Len(players_) = 0

update_players_in_game_AddFirst(ctx, game_data, failAt) ==
    IF IsNone(game_data.players)
    THEN Err(ctx, MandatoryFieldError("A new list of players is mandatory"))
    ELSE IF NoPlayers(Unwrap(game_data.players))
    THEN Err(ctx, DatabaseQueryError("An empty list of players was provided", NONE,
                                     "BAD_REQUEST"))
    ELSE LET new_players == Unwrap(game_data.players)
         IN Match({IF ~IsOk(r1) THEN Rewrap(r1)
                   ELSE LET all_current_players == r1.val
                        IN Match({IF ~IsOk(r2) THEN r2
                                  ELSE Match({IF ~IsOk(r3) THEN r3
                                              ELSE Ok(r3.ctx,
                                                      ReturnedPlayers(all_current_players,
                                                                      new_players)) :
                                              r3 \in {DeleteRemovedPlayers(
                                                          r2.ctx, all_current_players,
                                                          new_players, failAt)}}) :
                                  r2 \in {AddNewPlayers(r1.ctx, new_players,
                                                        all_current_players, failAt)}}) :
                   r1 \in {get_all_players(ctx, game_data.id, failAt)}})

update_players_in_game(ctx, game_data, failAt) ==
    IF IsNone(game_data.players)
    THEN Err(ctx, MandatoryFieldError("A new list of players is mandatory"))
    ELSE IF NoPlayers(Unwrap(game_data.players))
    THEN Err(ctx, DatabaseQueryError("An empty list of players was provided", NONE,
                                     "BAD_REQUEST"))
    ELSE LET new_players == Unwrap(game_data.players)
         IN Match({IF ~IsOk(r1) THEN Rewrap(r1)
                   ELSE LET all_current_players == r1.val
                        IN Match({IF ~IsOk(r2) THEN r2
                                  ELSE Match({IF ~IsOk(r3) THEN r3
                                              ELSE Ok(r3.ctx,
                                                      ReturnedPlayers(all_current_players,
                                                                      new_players)) :
                                              r3 \in {AddNewPlayers(r2.ctx, new_players,
                                                                    all_current_players,
                                                                    failAt)}}) :
                                  r2 \in {DeleteRemovedPlayers(r1.ctx, all_current_players,
                                                               new_players, failAt)}}) :
                   r1 \in {get_all_players(ctx, game_data.id, failAt)}})

-----------------------------------------------------------------------------
(* ClaimsRepository *)

\* A row of claims as decoded into a Claim.
ClaimRow(d, id) ==
    [id |-> id, created_by |-> d.claims[id].created_by,
     number_of_cards |-> d.claims[id].number_of_cards, cards |-> <<>>]

ClaimsOf(d, game_id, player_id) ==
    {q \in DOMAIN d.claims :
        IF game_id # NONE THEN d.claims[q].game_id = game_id
        ELSE player_id # NONE => d.claims[q].created_by = player_id}

\* The iterator adaptor built by extracted_claims.iter_mut().map(async ..)
\* is dropped without being driven: no card query is issued and the claims
\* are returned as decoded.
get_all_claims(ctx, game_id, player_id, failAt) ==
    LET c == Issue(ctx, "SELECT", "claims", IF game_id # NONE THEN game_id ELSE player_id)
    IN IF ExecFails(ctx, failAt)
       THEN Err(c, DatabaseQueryError("executor", NONE, "INTERNAL_SERVER_ERROR"))
       ELSE Ok(c, SetToSeq({ClaimRow(ctx.db, q) : q \in ClaimsOf(ctx.db, game_id, player_id)}))

RECURSIVE AssignCards(_, _, _, _)
AssignCards(ctx, card_ids, claim_id, failAt) ==
    IF card_ids = <<>> THEN Ok(ctx, NONE)
    ELSE Match({IF ~IsOk(r) THEN r
                ELSE AssignCards(r.ctx, Tail(card_ids), claim_id, failAt) :
                r \in {update_card(ctx, Head(card_ids), claim_id, failAt)}})

\* INSERT INTO claims (id, created_by, number_of_cards, cards): no game_id is
\* written, the row belongs to no game.  The result of the INSERT is looked
\* at after the cards have been handed to the claim.
create_claim(ctx, claim, failAt) ==
    LET c == Issue(ctx, "INSERT", "claims", claim.id)
        inserted == ~(ExecFails(ctx, failAt) \/ claim.id \in DOMAIN ctx.db.claims)
        c1 == IF inserted
              THEN SetTable(c, "claims",
                            Put(ctx.db.claims, claim.id,
                                [created_by |-> claim.created_by,
                                 number_of_cards |-> claim.number_of_cards,
                                 game_id |-> NONE]))
              ELSE c
    IN Match({IF ~IsOk(r) THEN r
              ELSE IF inserted THEN Ok(r.ctx, claim)
              ELSE Err(r.ctx, DatabaseQueryError("executor", "Claim",
                                                 "INTERNAL_SERVER_ERROR")) :
              r \in {AssignCards(c1, claim.cards, claim.id, failAt)}})

delete_all_claims_of_game(ctx, game_id, failAt) ==
    LET c == Issue(ctx, "DELETE", "claims", game_id)
    IN IF ExecFails(ctx, failAt)
       THEN Err(c, DatabaseQueryError("executor", NONE, "INTERNAL_SERVER_ERROR"))
       ELSE Ok(SetTable(c, "claims", Drop(ctx.db.claims, ClaimsOf(ctx.db, game_id, NONE))),
               NONE)

-----------------------------------------------------------------------------
(* GameRepository: claim reconciliation *)

\* game_data.claims.iter().len(): the iterator of an Option yields the one
\* value of Some and nothing for None.
OptionIterLen(opt) == IF IsNone(opt) THEN 0 ELSE 1

Panic(ctx) == [ctx |-> ctx, out |-> PanicOutcome, val |-> NONE]

update_claims_of_game(ctx, game_data, failAt) ==
    IF IsNone(game_data.claims)
    THEN Err(ctx, MandatoryFieldError("A new list of claims is mandatory"))
    ELSE Match({IF r1.out.kind = "Panic" THEN r1
                ELSE IF ~IsOk(r1) THEN Rewrap(r1)
                ELSE Match({IF ~IsOk(r2) THEN Rewrap(r2) ELSE r2 :
                            r2 \in {get_all_claims(r1.ctx, game_data.id, NONE, failAt)}}) :
                r1 \in {IF OptionIterLen(game_data.claims) = 0
                        THEN delete_all_claims_of_game(ctx, game_data.id, failAt)
                        ELSE IF Len(Unwrap(game_data.claims)) < 2
                        THEN Panic(ctx)
                        ELSE create_claim(ctx, Unwrap(game_data.claims)[2], failAt)}})

-----------------------------------------------------------------------------
(* GameRepository: chat reconciliation *)

RECURSIVE DeleteMessages(_, _, _)
DeleteMessages(ctx, ids, failAt) ==
    IF ids = <<>> THEN Ok(ctx, NONE)
    ELSE Match({IF ~IsOk(r) THEN r ELSE DeleteMessages(r.ctx, Tail(ids), failAt) :
                r \in {delete_message_by_id(ctx, Head(ids).id, failAt)}})

RECURSIVE SaveMessages(_, _, _)
SaveMessages(ctx, messages, failAt) ==
    IF messages = <<>> THEN Ok(ctx, NONE)
    ELSE Match({IF ~IsOk(r) THEN r ELSE SaveMessages(r.ctx, Tail(messages), failAt) :
                r \in {save_message(ctx, Head(messages), failAt)}})

update_chat_of_game_SaveFirst(ctx, game_data, failAt) ==
    IF IsNone(game_data.chat)
    THEN Err(ctx, MandatoryFieldError("A new chat object is mandatory"))
    ELSE LET chat == Unwrap(game_data.chat)
         IN IF chat.number_of_messages = 0
            THEN Match({IF ~IsOk(r1) THEN r1
                        ELSE Match({IF ~IsOk(r2) THEN r2 ELSE Ok(r2.ctx, chat) :
                                    r2 \in {update_number_of_messages_of_chat(
                                                r1.ctx, 0, chat.id, NONE, failAt)}}) :
                        r1 \in {delete_all_messages_in_chat(ctx, chat.id, failAt)}})
            ELSE Match({IF ~IsOk(r1) THEN r1
                        ELSE LET all_current_messages == r1.val
                                 id_list_of_removed_messages ==
                                     SelectSeq(all_current_messages,
                                               LAMBDA cur_mes :
                                                   ~HasId(chat.messages, cur_mes.id))
                                 new_messages ==
                                     SelectSeq(chat.messages,
                                               LAMBDA passed_message :
                                                   ~HasId(all_current_messages,
                                                          passed_message.id))
                             IN Match({IF ~IsOk(r2) THEN r2
                                       ELSE Match({IF ~IsOk(r3) THEN r3 ELSE Ok(r3.ctx, chat) :
                                                   r3 \in {DeleteMessages(
                                                               r2.ctx,
                                                               id_list_of_removed_messages,
                                                               failAt)}}) :
                                       r2 \in {SaveMessages(r1.ctx, new_messages, failAt)}}) :
                        r1 \in {get_all_messages_in_chat(ctx, chat.id, failAt)}})

update_chat_of_game(ctx, game_data, failAt) ==
    IF IsNone(game_data.chat)
    THEN Err(ctx, MandatoryFieldError("A new chat object is mandatory"))
    ELSE LET chat == Unwrap(game_data.chat)
         IN IF chat.number_of_messages = 0
            THEN Match({IF ~IsOk(r1) THEN r1
                        ELSE Match({IF ~IsOk(r2) THEN r2 ELSE Ok(r2.ctx, chat) :
                                    r2 \in {update_number_of_messages_of_chat(
                                                r1.ctx, 0, chat.id, NONE, failAt)}}) :
                        r1 \in {delete_all_messages_in_chat(ctx, chat.id, failAt)}})
            ELSE Match({IF ~IsOk(r1) THEN r1
                        ELSE LET all_current_messages == r1.val
                                 id_list_of_removed_messages ==
                                     SelectSeq(all_current_messages,
                                               LAMBDA cur_mes :
                                                   ~HasId(chat.messages, cur_mes.id))
                                 new_messages ==
                                     SelectSeq(chat.messages,
                                               LAMBDA passed_message :
                                                   ~HasId(all_current_messages,
                                                          passed_message.id))
                             IN Match({IF ~IsOk(r2) THEN r2
                                       ELSE Match({IF ~IsOk(r3) THEN r3 ELSE Ok(r3.ctx, chat) :
                                                   r3 \in {SaveMessages(r2.ctx, new_messages,
                                                                        failAt)}}) :
                                       r2 \in {DeleteMessages(r1.ctx,
                                                              id_list_of_removed_messages,
                                                              failAt)}}) :
                        r1 \in {get_all_messages_in_chat(ctx, chat.id, failAt)}})

-----------------------------------------------------------------------------
(* GameRepository: update_game *)

\* The statement text as the pieces that are pushed and truncated: the head
\* "UPDATE games SET " is kept as "UPDATE games SE" and "T ", so that
\* truncate(len - 2) takes off exactly the last piece, be it ", " or "T ".
Assignment(game_data, column) ==
    IF IsNone(game_data[column]) THEN <<>> ELSE <<column, ", ">>

get_update_query_string_and_bindings(game_data) ==
    LET pushed == <<"UPDATE games SE", "T ">>
                      \o Assignment(game_data, "state")
                      \o Assignment(game_data, "round_number")
                      \o Assignment(game_data, "card_to_play")
                      \o Assignment(game_data, "which_player_turn")
        truncated == SubSeq(pushed, 1, Len(pushed) - 1)
    IN [query |-> Append(truncated, " WHERE id = ? RETURNING *;"),
        bindings |-> game_data.state \o game_data.round_number \o game_data.card_to_play
                         \o game_data.which_player_turn \o <<game_data.id>>]

\* The statement parses when the SET keyword is whole.
WellFormed(query) == query[2] = "T "

\* The columns named by the statement, in the order of their placeholders.
SetColumns(query) ==
    SelectSeq(SubSeq(query, 3, Len(query) - 1), LAMBDA piece : piece # ", ")

UpdatedGameRow(row, query, bindings) ==
    [column \in DOMAIN row |->
        IF \E i \in DOMAIN SetColumns(query) : SetColumns(query)[i] = column
        THEN bindings[CHOOSE i \in DOMAIN SetColumns(query) : SetColumns(query)[i] = column]
        ELSE row[column]]

UpdateGamesRow_NoRowIsOk(ctx, game_data, failAt) ==
    LET qb == get_update_query_string_and_bindings(game_data)
        id == qb.bindings[Len(qb.bindings)]
        c == Issue(ctx, "UPDATE", "games", id)
    IN IF ExecFails(ctx, failAt) \/ ~WellFormed(qb.query)
       THEN Err(c, DatabaseQueryError("executor", NONE, "INTERNAL_SERVER_ERROR"))
       ELSE IF id \notin DOMAIN ctx.db.games
       THEN Ok(c, [id |-> id, state |-> 0, round_number |-> 0, card_to_play |-> 0,
                   which_player_turn |-> NONE, players |-> <<>>, claims |-> <<>>,
                   chat |-> NONE])
       ELSE LET row == UpdatedGameRow(ctx.db.games[id], qb.query, qb.bindings)
            IN Ok(SetTable(c, "games", [ctx.db.games EXCEPT ![id] = row]),
                  [id |-> id, state |-> row.state, round_number |-> row.round_number,
                   card_to_play |-> row.card_to_play,
                   which_player_turn |-> row.which_player_turn,
                   players |-> <<>>, claims |-> <<>>, chat |-> NONE])

\* The statement of update_game itself: the scalar columns of the games row,
\* which first() must hand back.
UpdateGamesRow(ctx, game_data, failAt) ==
    LET qb == get_update_query_string_and_bindings(game_data)
        id == qb.bindings[Len(qb.bindings)]
        c == Issue(ctx, "UPDATE", "games", id)
    IN IF ExecFails(ctx, failAt) \/ ~WellFormed(qb.query)
       THEN Err(c, DatabaseQueryError("executor", NONE, "INTERNAL_SERVER_ERROR"))
       ELSE IF id \notin DOMAIN ctx.db.games
       THEN Err(c, DatabaseQueryError("Failed to update game in the database", NONE,
                                      "INTERNAL_SERVER_ERROR"))
       ELSE LET row == UpdatedGameRow(ctx.db.games[id], qb.query, qb.bindings)
            IN Ok(SetTable(c, "games", [ctx.db.games EXCEPT ![id] = row]),
                  [id |-> id, state |-> row.state, round_number |-> row.round_number,
                   card_to_play |-> row.card_to_play,
                   which_player_turn |-> row.which_player_turn,
                   players |-> <<>>, claims |-> <<>>, chat |-> NONE])

IsErr_Never(r) == FALSE

\* Err(err) => return Err(..) after a reconciliation step of update_game.
IsErr(r) == ~IsOk(r)

update_game(ctx, game_data, failAt) ==
    Match({IF ~IsOk(r0) THEN r0
           ELSE Match({IF IsErr(r1) THEN r1
                       ELSE Match({IF IsErr(r2) THEN r2
                                   ELSE Match({IF IsErr(r3) THEN r3
                                               ELSE Ok(r3.ctx,
                                                       [r0.val EXCEPT !.players = r1.val,
                                                                      !.claims = r2.val,
                                                                      !.chat = r3.val]) :
                                               r3 \in {update_chat_of_game(r2.ctx, game_data,
                                                                           failAt)}}) :
                                   r2 \in {update_claims_of_game(r1.ctx, game_data,
                                                                 failAt)}}) :
                       r1 \in {update_players_in_game(r0.ctx, game_data, failAt)}}) :
           r0 \in {UpdateGamesRow(ctx, game_data, failAt)}})

-----------------------------------------------------------------------------
(* GameRepository: reads *)

\* The row of games decoded into a Game, before its collections are fetched.
GameRow(d, id) ==
    [id |-> id, state |-> d.games[id].state, round_number |-> d.games[id].round_number,
     card_to_play |-> d.games[id].card_to_play,
     which_player_turn |-> d.games[id].which_player_turn,
     players |-> <<>>, claims |-> <<>>, chat |-> NONE]

GameNotFound_Internal == DatabaseQueryError("Game not found", NONE, "INTERNAL_SERVER_ERROR")

\* None => Err(..) of get_game_by_id.
GameNotFound == DatabaseQueryError("Game not found", NONE, "NOT_FOUND")

get_game_by_id(ctx, game_id, failAt) ==
    LET c == Issue(ctx, "SELECT", "games", game_id)
    IN IF ExecFails(ctx, failAt)
       THEN Err(c, DatabaseQueryError("executor", NONE, "INTERNAL_SERVER_ERROR"))
       ELSE IF game_id \notin DOMAIN ctx.db.games
       THEN Err(c, GameNotFound)
       ELSE Match({IF ~IsOk(r1) THEN r1
                   ELSE Match({IF ~IsOk(r2) THEN r2
                               ELSE Match({IF ~IsOk(r3) THEN r3
                                           ELSE Ok(r3.ctx,
                                                   [GameRow(ctx.db, game_id) EXCEPT
                                                       !.chat = r1.val, !.players = r2.val,
                                                       !.claims = r3.val]) :
                                           r3 \in {get_all_claims(r2.ctx, game_id, NONE,
                                                                  failAt)}}) :
                               r2 \in {get_all_players(r1.ctx, game_id, failAt)}}) :
                   r1 \in {get_chat(c, NONE, game_id, failAt)}})

\* for game in &mut output: players, claims and chat of each game in turn.
RECURSIVE HydrateGames(_, _, _)
HydrateGames(ctx, output, failAt) ==
    IF output = <<>> THEN Ok(ctx, <<>>)
    ELSE LET game == Head(output)
         IN Match({IF ~IsOk(r1) THEN r1
                   ELSE Match({IF ~IsOk(r2) THEN r2
                               ELSE Match({IF ~IsOk(r3) THEN r3
                                           ELSE Match({IF ~IsOk(rest) THEN rest
                                                       ELSE Ok(rest.ctx,
                                                               <<[game EXCEPT
                                                                    !.players = r1.val,
                                                                    !.claims = r2.val,
                                                                    !.chat = r3.val]>>
                                                                   \o rest.val) :
                                                       rest \in {HydrateGames(
                                                                    r3.ctx, Tail(output),
                                                                    failAt)}}) :
                                           r3 \in {get_chat(r2.ctx, NONE, game.id, failAt)}}) :
                               r2 \in {get_all_claims(r1.ctx, game.id, NONE, failAt)}}) :
                   r1 \in {get_all_players(ctx, game.id, failAt)}})

get_all_games(ctx, failAt) ==
    LET c == Issue(ctx, "SELECT", "games", NONE)
        output == SetToSeq({GameRow(ctx.db, g) : g \in DOMAIN ctx.db.games})
    IN IF ExecFails(ctx, failAt)
       THEN Err(c, DatabaseQueryError("executor", NONE, "INTERNAL_SERVER_ERROR"))
       ELSE IF output = <<>>
       THEN Err(c, DatabaseQueryError("No games found", NONE, "NOT_FOUND"))
       ELSE HydrateGames(c, output, failAt)

-----------------------------------------------------------------------------
(* The state after set-up: two games, each with its chat, nothing else.    *)

GameChat == [c1 |-> "g1", c2 |-> "g2"]

NoCall == [op |-> "none", args |-> <<>>, failAt |-> 0, out |-> OkOutcome,
           ret |-> NONE, log |-> <<>>]

Init ==
    /\ games = [g \in GameIds |->
                   [state |-> 0, round_number |-> 0, card_to_play |-> 0,
                    which_player_turn |-> NONE]]
    /\ players = <<>>
    /\ chats = [c \in ChatIds |-> [number_of_messages |-> 0, game_id |-> GameChat[c]]]
    /\ chat_messages = <<>>
    /\ claims = <<>>
    /\ cards = [k \in CardIds |-> [claim_id |-> NONE, player_id |-> NONE]]
    /\ call = NoCall

Commit_RollBack(op, args, failAt, r) ==
    /\ IF IsOk(r)
       THEN /\ games' = r.ctx.db.games
            /\ players' = r.ctx.db.players
            /\ chats' = r.ctx.db.chats
            /\ chat_messages' = r.ctx.db.chat_messages
            /\ claims' = r.ctx.db.claims
            /\ cards' = r.ctx.db.cards
       ELSE UNCHANGED <<games, players, chats, chat_messages, claims, cards>>
    /\ call' = [op |-> op, args |-> args, failAt |-> failAt, out |-> r.out,
                ret |-> r.val, log |-> r.ctx.log]

\* The store after a call and the record of the call: every statement that
\* ran is kept, whatever the call returns.
Commit(op, args, failAt, r) ==
    /\ games' = r.ctx.db.games
    /\ players' = r.ctx.db.players
    /\ chats' = r.ctx.db.chats
    /\ chat_messages' = r.ctx.db.chat_messages
    /\ claims' = r.ctx.db.claims
    /\ cards' = r.ctx.db.cards
    /\ call' = [op |-> op, args |-> args, failAt |-> failAt, out |-> r.out,
                ret |-> r.val, log |-> r.ctx.log]

-----------------------------------------------------------------------------
(* Inputs *)

ChatArgIds == ChatIds \cup {"c0"}     \* c0: no such chat

Messages == [id : MsgIds, chat_id : ChatIds]

\* The lists of records without repeated ids, in one order of the ids.
RECURSIVE ListsOver(_, _)
ListsOver(ids, records) ==
    IF ids = <<>> THEN {<<>>}
    ELSE LET rest == ListsOver(Tail(ids), records)
         IN rest \cup {<<v>> \o l : v \in {r \in records : r.id = Head(ids)}, l \in rest}

MessageLists == {l \in ListsOver(SetToSeq(MsgIds), Messages) : Len(l) <= MaxLen}

DesiredChats ==
    [id : ChatIds, number_of_messages : 0 .. MaxLen, game_id : {NONE}, messages : MessageLists]

\* UpdateGameDTO with nothing but the id.
EmptyDTO(id) ==
    [id |-> id, state |-> None, round_number |-> None, card_to_play |-> None,
     which_player_turn |-> None, players |-> None, claims |-> None, chat |-> None]

ChatDTO(chat) ==
    [EmptyDTO(GameChat[chat.id]) EXCEPT
        !.chat = Some([chat EXCEPT !.game_id = GameChat[chat.id]])]

Players == [id : PlayerIds, name : Names, game_id : GameIds, assigned_cards : {<<>>}]

PlayerLists == {l \in ListsOver(SetToSeq(PlayerIds), Players) : Len(l) <= MaxLen}

OptionalPlayerLists == {None} \cup {Some(l) : l \in PlayerLists}

Claims ==
    {[id |-> q, created_by |-> "p1", number_of_cards |-> Len(k), cards |-> k] :
        q \in ClaimIds, k \in SeqsUpTo(CardIds, 1)}

OptionalClaimLists == {None} \cup {Some(l) : l \in SeqsUpTo(Claims, MaxLen)}

\* The DTOs of the update scenario: game g1, whose chat is c1, and the id g0
\* of no game; the players p1 and p2, the claims q1 (holding card k1) and q2,
\* the messages m1 and m2.
ScenarioGames == {"g1", "g0"}

ScenarioPlayerLists ==
    {None} \cup
    {Some(l) : l \in {m \in ListsOver(<<"p1", "p2">>,
                                      {pl \in Players : pl.name = "a" /\ pl.game_id = "g1"}) :
                         Len(m) <= MaxLen}}

ScenarioClaimLists ==
    {None} \cup
    {Some(l) : l \in SeqsUpTo({cl \in Claims : cl.cards # <<>> <=> cl.id = "q1"}, MaxLen)}

ScenarioChats ==
    {None} \cup
    {Some([id |-> "c1", number_of_messages |-> n, game_id |-> "g1", messages |-> l]) :
        n \in 0 .. 1,
        l \in {m \in ListsOver(<<"m1", "m2">>, {msg \in Messages : msg.chat_id = "c1"}) :
                  Len(m) <= MaxLen}}

ScenarioRounds == {None, Some(1)}

GameDTOs ==
    {[EmptyDTO(id) EXCEPT !.round_number = round, !.players = pl, !.claims = cl,
                          !.chat = ch] :
        id \in ScenarioGames, round \in ScenarioRounds, pl \in ScenarioPlayerLists,
        cl \in ScenarioClaimLists, ch \in ScenarioChats}

\* The update scenario starts with player p1 in game g1.
InitGame ==
    /\ games = [g \in GameIds |->
                   [state |-> 0, round_number |-> 0, card_to_play |-> 0,
                    which_player_turn |-> NONE]]
    /\ players = [p \in {"p1"} |-> [name |-> "a", game_id |-> "g1"]]
    /\ chats = [c \in ChatIds |-> [number_of_messages |-> 0, game_id |-> GameChat[c]]]
    /\ chat_messages = <<>>
    /\ claims = <<>>
    /\ cards = [k \in CardIds |-> [claim_id |-> NONE, player_id |-> NONE]]
    /\ call = NoCall

-----------------------------------------------------------------------------
(* Actions *)

\* One request is served at a time: a call starts when the result of the
\* previous one has been handed back.
Idle == call.op = "none"

AddNewMessageToChat ==
    /\ Idle
    /\ \E chat_id \in ChatArgIds, chat_message \in Messages :
        /\ chat_id \in DOMAIN chats => chats[chat_id].number_of_messages < MaxCount
        /\ \E failAt \in 0 .. add_new_message_to_chat(NewCtx, chat_id, chat_message, 0).ctx.n :
              \E r \in {add_new_message_to_chat(NewCtx, chat_id, chat_message, failAt)} :
                  Commit("add_new_message_to_chat",
                         [chat_id |-> chat_id, chat_message |-> chat_message], failAt, r)

RemoveMessageFromChat ==
    /\ Idle
    /\ \E chat_id \in ChatArgIds, message_id \in MsgIds :
        \E failAt \in 0 .. remove_message_from_chat(NewCtx, chat_id, message_id, 0).ctx.n :
            \E r \in {remove_message_from_chat(NewCtx, chat_id, message_id, failAt)} :
                Commit("remove_message_from_chat",
                       [chat_id |-> chat_id, message_id |-> message_id], failAt, r)

UpdateChatOfGame ==
    /\ Idle
    /\ \E chat \in DesiredChats :
        \E failAt \in 0 .. update_chat_of_game(NewCtx, ChatDTO(chat), 0).ctx.n :
            \E r \in {update_chat_of_game(NewCtx, ChatDTO(chat), failAt)} :
               Commit("update_chat_of_game", ChatDTO(chat), failAt, r)

\* The result is handed back to the caller.
Respond ==
    /\ call.op # "none"
    /\ call' = NoCall
    /\ UNCHANGED <<games, players, chats, chat_messages, claims, cards>>

AddPlayer ==
    /\ Idle
    /\ \E player \in Players :
        \E failAt \in 0 .. add_player(NewCtx, player, 0).ctx.n :
            \E r \in {add_player(NewCtx, player, failAt)} :
               Commit("add_player", [player |-> player], failAt, r)

UpdatePlayersInGame ==
    /\ Idle
    /\ \E id \in GameIds, new_players \in OptionalPlayerLists :
        LET game_data == [EmptyDTO(id) EXCEPT !.players = new_players]
        IN \E failAt \in 0 .. update_players_in_game(NewCtx, game_data, 0).ctx.n :
              \E r \in {update_players_in_game(NewCtx, game_data, failAt)} :
                 Commit("update_players_in_game", game_data, failAt, r)

UpdateClaimsOfGame ==
    /\ Idle
    /\ \E id \in GameIds, new_claims \in OptionalClaimLists :
        LET game_data == [EmptyDTO(id) EXCEPT !.claims = new_claims]
        IN \E failAt \in 0 .. update_claims_of_game(NewCtx, game_data, 0).ctx.n :
              \E r \in {update_claims_of_game(NewCtx, game_data, failAt)} :
                 Commit("update_claims_of_game", game_data, failAt, r)

UpdateGame ==
    /\ Idle
    /\ \E game_data \in GameDTOs :
        \E failAt \in 0 .. update_game(NewCtx, game_data, 0).ctx.n :
            \E r \in {update_game(NewCtx, game_data, failAt)} :
               Commit("update_game", game_data, failAt, r)

\* add_new_message_to_chat with a message that carries the chat_id of the
\* call.
AddMessageOfChat ==
    /\ Idle
    /\ \E chat_id \in ChatIds, id \in MsgIds :
        /\ chats[chat_id].number_of_messages < MaxCount
        /\ \E chat_message \in {[id |-> id, chat_id |-> chat_id]} :
            \E failAt \in 0 .. add_new_message_to_chat(NewCtx, chat_id, chat_message, 0).ctx.n :
              \E r \in {add_new_message_to_chat(NewCtx, chat_id, chat_message, failAt)} :
                  Commit("add_new_message_to_chat",
                         [chat_id |-> chat_id, chat_message |-> chat_message], failAt, r)

NextAdds == AddMessageOfChat \/ Respond

SpecAdds == Init /\ [][NextAdds]_vars

NextChat == AddNewMessageToChat \/ RemoveMessageFromChat \/ UpdateChatOfGame \/ Respond

SpecChat == Init /\ [][NextChat]_vars

NextPlayers == AddPlayer \/ UpdatePlayersInGame \/ Respond

SpecPlayers == Init /\ [][NextPlayers]_vars

NextClaims == UpdateClaimsOfGame \/ Respond

SpecClaims == Init /\ [][NextClaims]_vars

NextGame == UpdateGame \/ Respond

SpecGame == InitGame /\ [][NextGame]_vars

-----------------------------------------------------------------------------
(* The three reconciliation steps of update_game, each called on its own    *)
(* with the DTOs of the update scenario.                                    *)

StepDTOs == {game_data \in GameDTOs : game_data.round_number = None}

ReconcilePlayers ==
    /\ Idle
    /\ \E game_data \in StepDTOs :
        \E failAt \in 0 .. update_players_in_game(NewCtx, game_data, 0).ctx.n :
            \E r \in {update_players_in_game(NewCtx, game_data, failAt)} :
               Commit("update_players_in_game", game_data, failAt, r)

ReconcileClaims ==
    /\ Idle
    /\ \E game_data \in StepDTOs :
        \E failAt \in 0 .. update_claims_of_game(NewCtx, game_data, 0).ctx.n :
            \E r \in {update_claims_of_game(NewCtx, game_data, failAt)} :
               Commit("update_claims_of_game", game_data, failAt, r)

ReconcileChat ==
    /\ Idle
    /\ \E game_data \in StepDTOs :
        \E failAt \in 0 .. update_chat_of_game(NewCtx, game_data, 0).ctx.n :
            \E r \in {update_chat_of_game(NewCtx, game_data, failAt)} :
               Commit("update_chat_of_game", game_data, failAt, r)

NextSteps == ReconcilePlayers \/ ReconcileClaims \/ ReconcileChat \/ Respond

SpecSteps == InitGame /\ [][NextSteps]_vars

-----------------------------------------------------------------------------
(* The reads, called on the stores that the writes can leave behind: up to  *)
(* two games, players p1 and p2, chats c1 and c2 with messages m1 and m2,   *)
(* claims q1 and q2 of player p1, card k1 with or without an owner.         *)

ReadGames ==
    {[g \in G |-> [state |-> 0, round_number |-> 0, card_to_play |-> 0,
                   which_player_turn |-> NONE]] : G \in {{}, {"g1"}, {"g1", "g2"}}}

ReadPlayers ==
    {<<>>, [p \in {"p1"} |-> [name |-> "a", game_id |-> "g1"]]}
        \cup {[p \in {"p1", "p2"} |->
                  [name |-> "a", game_id |-> IF p = "p1" THEN "g1" ELSE g]] : g \in GameIds}

ReadMessages ==
    {<<>>, [m \in {"m1"} |-> [chat_id |-> "c1"]]}
        \cup {[m \in {"m1", "m2"} |-> [chat_id |-> IF m = "m1" THEN "c1" ELSE c]] :
                 c \in ChatIds}

\* The chats whose counters match the message rows.
ReadChats(messages) ==
    {[c \in C |->
         [number_of_messages |-> Cardinality({m \in DOMAIN messages :
                                                 messages[m].chat_id = c}),
          game_id |-> GameChat[c]]] : C \in {{}, {"c1"}, {"c1", "c2"}}}

ReadCards ==
    [CardIds -> {[claim_id |-> NONE, player_id |-> NONE],
                 [claim_id |-> "q1", player_id |-> NONE],
                 [claim_id |-> NONE, player_id |-> "p1"]}]

\* The claims as create_claim writes them, the owner of a card among them.
ReadClaims(owned) ==
    {[q \in Q |->
         [created_by |-> "p1",
          number_of_cards |-> Cardinality({k \in DOMAIN owned : owned[k].claim_id = q}),
          game_id |-> NONE]] :
        Q \in {R \in {{}, {"q1"}, {"q1", "q2"}} :
                  \A k \in DOMAIN owned : owned[k].claim_id \in R \cup {NONE}}}

InitRead ==
    /\ games \in ReadGames
    /\ players \in ReadPlayers
    /\ chat_messages \in ReadMessages
    /\ chats \in ReadChats(chat_messages)
    /\ cards \in ReadCards
    /\ claims \in ReadClaims(cards)
    /\ call = NoCall

GetGameById ==
    /\ Idle
    /\ \E game_id \in GameIds \cup {"g0"} :
        \E failAt \in 0 .. get_game_by_id(NewCtx, game_id, 0).ctx.n :
            \E r \in {get_game_by_id(NewCtx, game_id, failAt)} :
               Commit("get_game_by_id", [game_id |-> game_id], failAt, r)

GetAllGames ==
    /\ Idle
    /\ \E failAt \in 0 .. get_all_games(NewCtx, 0).ctx.n :
           \E r \in {get_all_games(NewCtx, failAt)} :
              Commit("get_all_games", <<>>, failAt, r)

\* get_chat as its callers use it: with the game_id, with or without a
\* chat_id.
GetChat ==
    /\ Idle
    /\ \E chat_id \in ChatIds \cup {NONE}, game_id \in GameIds :
        \E failAt \in 0 .. get_chat(NewCtx, chat_id, game_id, 0).ctx.n :
            \E r \in {get_chat(NewCtx, chat_id, game_id, failAt)} :
               Commit("get_chat", [chat_id |-> chat_id, game_id |-> game_id], failAt, r)

GetAllClaims ==
    /\ Idle
    /\ \E game_id \in {NONE, "g1"}, player_id \in {NONE, "p1"} :
        \E failAt \in 0 .. get_all_claims(NewCtx, game_id, player_id, 0).ctx.n :
            \E r \in {get_all_claims(NewCtx, game_id, player_id, failAt)} :
               Commit("get_all_claims", [game_id |-> game_id, player_id |-> player_id],
                      failAt, r)

NextRead == GetGameById \/ GetAllGames \/ GetChat \/ GetAllClaims \/ Respond

SpecRead == InitRead /\ [][NextRead]_vars

-----------------------------------------------------------------------------
(* add_new_message_to_chat statement by statement, next to the requests of  *)
(* other clients: every awaited statement is a point at which another       *)
(* request's statement can reach the store.                                 *)

\* The call has been suspended at an await and is to be resumed.
PendingOutcome ==
    [kind |-> "Pending", message |-> "", received_data |-> NONE, status_code |-> NONE]

\* The call in flight has issued k statements.
Suspended(op, k) == call.op = op /\ call.out = PendingOutcome /\ Len(call.log) = k

\* The context in which the call in flight resumes: the store as it is now.
ResumeCtx == [db |-> DB, n |-> Len(call.log), log |-> call.log]

Store(d) ==
    /\ games' = d.games
    /\ players' = d.players
    /\ chats' = d.chats
    /\ chat_messages' = d.chat_messages
    /\ claims' = d.claims
    /\ cards' = d.cards

\* The call goes on to its next statement.
Suspend(r, ret) == call' = [call EXCEPT !.ret = ret, !.log = r.ctx.log]

\* The call returns r.
Finish(r, failAt) ==
    call' = [call EXCEPT !.failAt = failAt, !.out = r.out, !.ret = r.val, !.log = r.ctx.log]

\* let updated_num_of_mess = match self.get_number_of_messages_of_chat(..)
AddReadCount ==
    /\ Idle
    /\ \E chat_id \in ChatIds, chat_message \in Messages, failAt \in 0 .. 1 :
        /\ chat_id \in DOMAIN chats => chats[chat_id].number_of_messages < MaxCount
        /\ \E r \in {get_number_of_messages_of_chat(NewCtx, NONE, chat_id, failAt)} :
              /\ Store(r.ctx.db)
              /\ call' = [op |-> "add_new_message_to_chat",
                          args |-> [chat_id |-> chat_id, chat_message |-> chat_message],
                          failAt |-> IF IsOk(r) THEN 0 ELSE failAt,
                          out |-> IF IsOk(r) THEN PendingOutcome ELSE r.out,
                          ret |-> IF IsOk(r) THEN r.val + 1 ELSE r.val,
                          log |-> r.ctx.log]

\* let modification_result = .. UPDATE chats SET number_of_messages ..
AddWriteCount ==
    /\ Suspended("add_new_message_to_chat", 1)
    /\ \E failAt \in {0, 2} :
          \E r \in {WriteIncrementedCount(ResumeCtx, call.args.chat_id, call.ret, failAt)} :
              /\ Store(r.ctx.db)
              /\ IF IsOk(r) THEN Suspend(r, call.ret) ELSE Finish(r, failAt)

\* chat_message_repo.save_message(&chat_message)
AddSaveMessage ==
    /\ Suspended("add_new_message_to_chat", 2)
    /\ \E failAt \in {0, 3} :
          \E r \in {save_message(ResumeCtx, call.args.chat_message, failAt)} :
              /\ Store(r.ctx.db)
              /\ Finish(r, failAt)

\* The statement of another request: delete_chat.
DeleteChat ==
    /\ \E chat_id \in ChatIds :
          \E r \in {delete_chat(NewCtx, chat_id, NONE, 0)} : Store(r.ctx.db)
    /\ UNCHANGED call

RespondFinished ==
    /\ call.out # PendingOutcome
    /\ Respond

\* The number handed back by RETURNING number_of_messages as first::<usize>
\* decodes it: the number written, or another one; the caller compares.
Echoed(written) == {written, written + 1}

\* let nr_of_mes_fetch_result = match self.get_number_of_messages_of_chat(..)
RemoveReadCount ==
    /\ Idle
    /\ \E chat_id \in ChatIds, message_id \in MsgIds, failAt \in 0 .. 1 :
          \E r \in {get_number_of_messages_of_chat(NewCtx, NONE, chat_id, failAt)} :
              /\ Store(r.ctx.db)
              /\ \E done \in {IF ~IsOk(r) THEN r
                               ELSE IF CounterIsZero(r.val)
                               THEN Err(r.ctx, ProcessError(
                                                   "number of messages can't be negative"))
                               ELSE r} :
                    call' = [op |-> "remove_message_from_chat",
                             args |-> [chat_id |-> chat_id, message_id |-> message_id],
                             failAt |-> IF IsOk(r) THEN 0 ELSE failAt,
                             out |-> IF IsOk(done) THEN PendingOutcome ELSE done.out,
                             ret |-> IF IsOk(done)
                                     THEN [nr_of_mes_fetch_result |-> r.val - 1]
                                     ELSE done.val,
                             log |-> r.ctx.log]

\* let modification_result = match self.update_number_of_messages_of_chat(..)
\* and the comparison of the two numbers.
RemoveWriteCount ==
    /\ Suspended("remove_message_from_chat", 1)
    /\ \E failAt \in {0, 2} :
          \E r \in {update_number_of_messages_of_chat(
                        ResumeCtx, call.ret.nr_of_mes_fetch_result, call.args.chat_id, NONE,
                        failAt)} :
              /\ Store(r.ctx.db)
              /\ IF ~IsOk(r) THEN Finish(r, failAt)
                 ELSE \E modification_result \in Echoed(r.val) :
                        IF EchoDiffers(modification_result, call.ret.nr_of_mes_fetch_result)
                        THEN Finish(Err(r.ctx, ProcessError(
                                                   "number_of_messages hasn't changed")), 0)
                        ELSE Suspend(r, [nr_of_mes_fetch_result |->
                                             call.ret.nr_of_mes_fetch_result,
                                         modification_result |-> modification_result])

\* chat_message_repo.delete_message_by_id(message_id)
RemoveDeleteMessage ==
    /\ Suspended("remove_message_from_chat", 2)
    /\ \E failAt \in {0, 3} :
          \E r \in {delete_message_by_id(ResumeCtx, call.args.message_id, failAt)} :
              /\ Store(r.ctx.db)
              /\ Finish(r, failAt)

NextRemoveSteps ==
    \/ AddNewMessageToChat
    \/ RemoveReadCount
    \/ RemoveWriteCount
    \/ RemoveDeleteMessage
    \/ DeleteChat
    \/ RespondFinished

SpecRemoveSteps == Init /\ [][NextRemoveSteps]_vars

-----------------------------------------------------------------------------
(* Two requests, each running add_new_message_to_chat once, statement by    *)
(* statement and interleaved at their suspension points.  In this           *)
(* specification call holds the records of both requests.                   *)

Requests == {1, 2}

InitPair ==
    /\ games = [g \in GameIds |->
                   [state |-> 0, round_number |-> 0, card_to_play |-> 0,
                    which_player_turn |-> NONE]]
    /\ players = <<>>
    /\ chats = [c \in ChatIds |-> [number_of_messages |-> 0, game_id |-> GameChat[c]]]
    /\ chat_messages = <<>>
    /\ claims = <<>>
    /\ cards = [k \in CardIds |-> [claim_id |-> NONE, player_id |-> NONE]]
    /\ call = [who \in Requests |-> NoCall]

\* Request who has issued k statements and goes on.
SuspendedAt(who, k) ==
    /\ call[who].op = "add_new_message_to_chat"
    /\ call[who].out = PendingOutcome
    /\ Len(call[who].log) = k

\* The context in which request who resumes: the store as it is now.
ResumeCtxOf(who) == [db |-> DB, n |-> Len(call[who].log), log |-> call[who].log]

\* let updated_num_of_mess = match self.get_number_of_messages_of_chat(..),
\* the message carrying the chat_id of the call.
PairReadCount ==
    \E who \in Requests :
        /\ call[who].op = "none"
        /\ \E chat_id \in ChatIds, id \in MsgIds, failAt \in 0 .. 1 :
              \E r \in {get_number_of_messages_of_chat(NewCtx, NONE, chat_id, failAt)} :
                  /\ Store(r.ctx.db)
                  /\ call' = [call EXCEPT ![who] =
                                 [op |-> "add_new_message_to_chat",
                                  args |-> [chat_id |-> chat_id,
                                            chat_message |-> [id |-> id, chat_id |-> chat_id]],
                                  failAt |-> IF IsOk(r) THEN 0 ELSE failAt,
                                  out |-> IF IsOk(r) THEN PendingOutcome ELSE r.out,
                                  ret |-> IF IsOk(r) THEN r.val + 1 ELSE r.val,
                                  log |-> r.ctx.log]]

\* let modification_result = .. UPDATE chats SET number_of_messages ..
PairWriteCount ==
    \E who \in Requests :
        /\ SuspendedAt(who, 1)
        /\ \E failAt \in {0, 2} :
              \E r \in {WriteIncrementedCount(ResumeCtxOf(who), call[who].args.chat_id,
                                               call[who].ret, failAt)} :
                  /\ Store(r.ctx.db)
                  /\ call' = [call EXCEPT ![who] =
                                 IF IsOk(r) THEN [@ EXCEPT !.log = r.ctx.log]
                                 ELSE [@ EXCEPT !.failAt = failAt, !.out = r.out,
                                                !.ret = r.val, !.log = r.ctx.log]]

\* chat_message_repo.save_message(&chat_message)
PairSaveMessage ==
    \E who \in Requests :
        /\ SuspendedAt(who, 2)
        /\ \E failAt \in {0, 3} :
              \E r \in {save_message(ResumeCtxOf(who), call[who].args.chat_message,
                                      failAt)} :
                  /\ Store(r.ctx.db)
                  /\ call' = [call EXCEPT ![who] =
                                 [@ EXCEPT !.failAt = failAt, !.out = r.out, !.ret = r.val,
                                           !.log = r.ctx.log]]

NextAddPair == PairReadCount \/ PairWriteCount \/ PairSaveMessage

SpecAddPair == InitPair /\ [][NextAddPair]_vars

-----------------------------------------------------------------------------
(* update_players_in_game of two requests for game g1, statement by         *)
(* statement: each request reads the players of the game, then issues its   *)
(* deletes and its inserts, and the statements of the other request reach   *)
(* the store in between.  The card queries of get_all_players read the      *)
(* cards only, which no request writes here, and are taken with the read.   *)

PairGame == "g1"

\* The desired lists of the two requests: players of the game.
PairPlayerLists == {l \in PlayerLists : l # <<>> /\ \A i \in DOMAIN l : l[i].game_id = PairGame}

InitPlayerPair ==
    /\ games = [g \in GameIds |->
                   [state |-> 0, round_number |-> 0, card_to_play |-> 0,
                    which_player_turn |-> NONE]]
    /\ players = [p \in {"p1"} |-> [name |-> "a", game_id |-> PairGame]]
    /\ chats = [c \in ChatIds |-> [number_of_messages |-> 0, game_id |-> GameChat[c]]]
    /\ chat_messages = <<>>
    /\ claims = <<>>
    /\ cards = [k \in CardIds |-> [claim_id |-> NONE, player_id |-> NONE]]
    /\ call = [who \in Requests |-> NoCall]

\* Request who is inside update_players_in_game, after its read.
Reconciling(who) ==
    /\ call[who].op = "update_players_in_game"
    /\ call[who].out = PendingOutcome

\* The request after a statement that did not fail: removed and added are
\* the players its two loops have still to delete and to insert; with both
\* empty the method returns Ok(all_current_players).
Reconciled(game_data, all_current_players, removed, added, log) ==
    [op |-> "update_players_in_game", args |-> game_data, failAt |-> 0,
     out |-> IF removed = <<>> /\ added = <<>> THEN OkOutcome ELSE PendingOutcome,
     ret |-> IF removed = <<>> /\ added = <<>>
             THEN ReturnedPlayers(all_current_players, Unwrap(game_data.players))
             ELSE [all_current_players |-> all_current_players, removed |-> removed,
                   added |-> added],
     log |-> log]

\* The request after a statement that failed: return Err(..).
Failed(game_data, failAt, r) ==
    [op |-> "update_players_in_game", args |-> game_data, failAt |-> failAt,
     out |-> Rewrap(r).out, ret |-> NONE, log |-> r.ctx.log]

\* let all_current_players = match player_repo.get_all_players(..)
PairReadPlayers ==
    \E who \in Requests :
        /\ call[who].op = "none"
        /\ \E new_players \in PairPlayerLists :
              \E game_data \in {[EmptyDTO(PairGame) EXCEPT !.players = Some(new_players)]} :
                \E failAt \in 0 .. get_all_players(NewCtx, PairGame, 0).ctx.n :
                  \E r \in {get_all_players(NewCtx, PairGame, failAt)} :
                      /\ Store(r.ctx.db)
                      /\ call' = [call EXCEPT ![who] =
                             IF ~IsOk(r) THEN Failed(game_data, failAt, r)
                             ELSE Reconciled(
                                      game_data, r.val,
                                      SelectSeq(r.val,
                                                LAMBDA player :
                                                    IsRemovedPlayer(new_players, player)),
                                      SelectSeq(new_players,
                                                LAMBDA player : IsNewPlayer(r.val, player)),
                                      r.ctx.log)]

\* player_repo.delete_player(&player.id) of the first loop
PairDeletePlayer ==
    \E who \in Requests :
        /\ Reconciling(who)
        /\ call[who].ret.removed # <<>>
        /\ \E failAt \in {0, Len(call[who].log) + 1} :
              \E r \in {delete_player(ResumeCtxOf(who), Head(call[who].ret.removed).id,
                                        failAt)} :
                  /\ Store(r.ctx.db)
                  /\ call' = [call EXCEPT ![who] =
                             IF ~IsOk(r) THEN Failed(call[who].args, failAt, r)
                             ELSE Reconciled(call[who].args,
                                             call[who].ret.all_current_players,
                                             Tail(call[who].ret.removed),
                                             call[who].ret.added, r.ctx.log)]

\* player_repo.add_player(player.clone()) of the second loop
PairAddPlayer ==
    \E who \in Requests :
        /\ Reconciling(who)
        /\ call[who].ret.removed = <<>>
        /\ \E failAt \in {0, Len(call[who].log) + 1} :
              \E r \in {add_player(ResumeCtxOf(who), Head(call[who].ret.added), failAt)} :
                  /\ Store(r.ctx.db)
                  /\ call' = [call EXCEPT ![who] =
                             IF ~IsOk(r) THEN Failed(call[who].args, failAt, r)
                             ELSE Reconciled(call[who].args,
                                             call[who].ret.all_current_players,
                                             <<>>, Tail(call[who].ret.added), r.ctx.log)]

NextPlayerPair == PairReadPlayers \/ PairDeletePlayer \/ PairAddPlayer

SpecPlayerPair == InitPlayerPair /\ [][NextPlayerPair]_vars

-----------------------------------------------------------------------------
(* The operations of ChatRepository that select a chat by an optional       *)
(* chat_id and an optional game_id, called with every combination of the    *)
(* two.                                                                     *)

OptionalChatIds == ChatIds \cup {NONE}

OptionalGameIds == GameIds \cup {NONE}

Filter(chat_id, game_id) == [chat_id |-> chat_id, game_id |-> game_id]

GetChatBy ==
    /\ Idle
    /\ \E chat_id \in OptionalChatIds, game_id \in OptionalGameIds :
        \E failAt \in 0 .. get_chat(NewCtx, chat_id, game_id, 0).ctx.n :
            \E r \in {get_chat(NewCtx, chat_id, game_id, failAt)} :
               Commit("get_chat", Filter(chat_id, game_id), failAt, r)

DeleteChatBy ==
    /\ Idle
    /\ \E chat_id \in OptionalChatIds, game_id \in OptionalGameIds :
        \E failAt \in 0 .. delete_chat(NewCtx, chat_id, game_id, 0).ctx.n :
            \E r \in {delete_chat(NewCtx, chat_id, game_id, failAt)} :
               Commit("delete_chat", Filter(chat_id, game_id), failAt, r)

GetNumberOfMessagesBy ==
    /\ Idle
    /\ \E chat_id \in OptionalChatIds, game_id \in OptionalGameIds :
        \E failAt \in 0 .. get_number_of_messages_of_chat(NewCtx, game_id, chat_id, 0).ctx.n :
            \E r \in {get_number_of_messages_of_chat(NewCtx, game_id, chat_id, failAt)} :
               Commit("get_number_of_messages_of_chat", Filter(chat_id, game_id), failAt, r)

UpdateNumberOfMessagesBy ==
    /\ Idle
    /\ \E chat_id \in OptionalChatIds, game_id \in OptionalGameIds,
          updated_number_of_messages \in 0 .. MaxCount :
        \E failAt \in 0 .. update_number_of_messages_of_chat(
                               NewCtx, updated_number_of_messages, chat_id, game_id,
                               0).ctx.n :
            \E r \in {update_number_of_messages_of_chat(
                          NewCtx, updated_number_of_messages, chat_id, game_id, failAt)} :
               Commit("update_number_of_messages_of_chat", Filter(chat_id, game_id),
                      failAt, r)

NextFilters ==
    GetChatBy \/ DeleteChatBy \/ GetNumberOfMessagesBy \/ UpdateNumberOfMessagesBy
        \/ Respond

SpecFilters == Init /\ [][NextFilters]_vars

NextAddSteps == AddReadCount \/ AddWriteCount \/ AddSaveMessage \/ DeleteChat \/ RespondFinished

SpecAddSteps == Init /\ [][NextAddSteps]_vars

-----------------------------------------------------------------------------
(* Properties of the chat operations *)

RowCount(chat_id) == Cardinality(MessagesOfChat(DB, chat_id))

CountersMatch == \A c \in DOMAIN chats : chats[c].number_of_messages = RowCount(c)

AddOrRemove == {"add_new_message_to_chat", "remove_message_from_chat"}

\* C1: a chat's number_of_messages equals the number of its message rows
\* after any sequence of add_new_message_to_chat / remove_message_from_chat
\* calls that all returned Ok: each such call, started where the counters
\* match the rows, ends where they match.
C1_CountMatchesRowsAfterOkCalls ==
    [][(CountersMatch /\ call'.op \in AddOrRemove /\ call'.out.kind = "Ok")
          => CountersMatch']_vars

\* C2: after update_chat_of_game returned Ok, the stored number_of_messages
\* of the chat of the DTO equals the number of message rows of that chat.
C2_CountMatchesRowsAfterUpdateChat ==
    (call.op = "update_chat_of_game" /\ call.out.kind = "Ok")
        => chats[Unwrap(call.args.chat).id].number_of_messages
               = RowCount(Unwrap(call.args.chat).id)

\* C3: remove_message_from_chat on a chat whose number_of_messages is 0
\* returns a process error and changes neither a counter nor a message row.
C3_RemoveOnEmptyChatFails ==
    [][(/\ call'.op = "remove_message_from_chat"
        /\ call'.args.chat_id \in DOMAIN chats
        /\ chats[call'.args.chat_id].number_of_messages = 0)
          => (/\ call'.out.kind = "ProcessError"
              /\ chats' = chats
              /\ chat_messages' = chat_messages)]_vars

\* C3 happens: the zero counter was read and the call was rejected, the
\* addressed message row being there.
C3_Witness ==
    /\ call.op = "remove_message_from_chat"
    /\ call.failAt = 0
    /\ call.out = ProcessError("number of messages can't be negative")
    /\ call.args.chat_id \in DOMAIN chats
    /\ chats[call.args.chat_id].number_of_messages = 0
    /\ call.args.message_id \in DOMAIN chat_messages

-----------------------------------------------------------------------------
(* Properties of the player reconciliation *)

DesiredIds(game_data) ==
    {Unwrap(game_data.players)[i].id : i \in DOMAIN Unwrap(game_data.players)}

Mutations == {"INSERT", "UPDATE", "DELETE"}

\* The ids of the rows of a table that the statements of the call wrote
\* with one of the verbs.
Written(table, verbs) ==
    {call.log[i].key : i \in {j \in DOMAIN call.log :
                                 call.log[j].table = table /\ call.log[j].verb \in verbs}}

\* C4: after update_players_in_game returned Ok for a game with a non-empty
\* current player set C and a non-empty desired list D, the ids of the
\* players persisted for the game are the ids of D; every player of C that is
\* not in D is deleted and every player of D that is not in C is inserted.
C4_PlayersOfGameEqualDesired ==
    [][(call'.op = "update_players_in_game" /\ call'.out.kind = "Ok")
          => LET C == PlayersOf(DB, call'.args.id)
                 D == DesiredIds(call'.args)
             IN /\ PlayersOf(DB', call'.args.id) = D
                /\ \A p \in C \ D : p \notin DOMAIN players'
                /\ \A p \in D \ C : p \in DOMAIN players']_vars

\* C5: update_players_in_game issues no insert, update or delete for a
\* player that is in the current set and in the desired list, and leaves the
\* stored row of that player as it was, whatever the desired entry carries.
C5_CommonPlayersUntouched ==
    [][(call'.op = "update_players_in_game" /\ ~IsNone(call'.args.players))
          => \A p \in PlayersOf(DB, call'.args.id) \cap DesiredIds(call'.args) :
                /\ p \in DOMAIN players'
                /\ players'[p] = players[p]
                /\ p \notin Written("players", Mutations)']_vars

\* C5 happens: a player of both sets whose desired entry carries another
\* name, in a call that deleted one player and inserted another.
C5_Witness ==
    /\ call.op = "update_players_in_game"
    /\ call.out.kind = "Ok"
    /\ \E i \in DOMAIN Unwrap(call.args.players) :
          LET d == Unwrap(call.args.players)[i]
          IN /\ HasId(call.ret, d.id)
             /\ d.id \in DOMAIN players
             /\ players[d.id].name # d.name
    /\ Written("players", {"DELETE"}) # {}
    /\ Written("players", {"INSERT"}) # {}

C6_ReturnedPlayersAreDesired ==
    [][(/\ call'.op = "update_game"
        /\ call'.out.kind = "Ok"
        /\ PlayersOf(DB, call'.args.id) = {"p1"}
        /\ ~IsNone(call'.args.players)
        /\ DesiredIds(call'.args) = {"p1", "p2"})
          => (/\ "p1" \in DOMAIN players' /\ players'["p1"] = players["p1"]
              /\ "p2" \in DOMAIN players'
              /\ {call'.ret.players[i].id : i \in DOMAIN call'.ret.players}
                     = {"p1", "p2"})]_vars

-----------------------------------------------------------------------------
(* Properties of the claim reconciliation *)

ErrorKinds == {"DatabaseQueryError", "ProcessError"}

\* C8: update_claims_of_game with a present, empty claims list deletes all
\* claims of the game and returns an empty list (no statement failing).
C8_EmptyListClearsClaims ==
    (/\ call.op = "update_claims_of_game"
     /\ call.args.claims = Some(<<>>)
     /\ call.failAt = 0)
        => (/\ call.out.kind = "Ok"
            /\ call.ret = <<>>
            /\ ClaimsOf(DB, call.args.id, NONE) = {})

\* C9: update_claims_of_game with a list of two or more claims inserts the
\* element at index 1 and no other, and the list it returns is the list of
\* the claims persisted for the game after the insert, the inserted claim
\* among them.
C9_InsertsSecondAndReturnsAll ==
    (/\ call.op = "update_claims_of_game"
     /\ call.out.kind = "Ok"
     /\ ~IsNone(call.args.claims)
     /\ Len(Unwrap(call.args.claims)) >= 2)
        => (/\ Written("claims", {"INSERT"}) = {Unwrap(call.args.claims)[2].id}
            /\ Unwrap(call.args.claims)[2].id \in DOMAIN claims
            /\ {call.ret[i].id : i \in DOMAIN call.ret} = ClaimsOf(DB, call.args.id, NONE)
            /\ HasId(call.ret, Unwrap(call.args.claims)[2].id))

\* C10: update_claims_of_game with a list of one claim fails by returning an
\* error value to its caller, and persists no claim.
C10_OneClaimReturnsError ==
    (/\ call.op = "update_claims_of_game"
     /\ ~IsNone(call.args.claims)
     /\ Len(Unwrap(call.args.claims)) = 1)
        => (/\ call.out.kind \in ErrorKinds
            /\ Written("claims", {"INSERT"}) = {})

-----------------------------------------------------------------------------
(* Properties of the chat reconciliation *)

DesiredChat == Unwrap(call.args.chat)

\* The message rows of a chat as get_all_messages_in_chat decodes them.
PersistedMessages(chat_id) ==
    {[id |-> m, chat_id |-> chat_messages[m].chat_id] : m \in MessagesOfChat(DB, chat_id)}

DesiredMessages(chat) == {chat.messages[i] : i \in DOMAIN chat.messages}

MessageWrites == {"INSERT", "DELETE"}

\* C11: update_chat_of_game with a desired chat whose messages are the
\* messages persisted for the chat issues no insert into and no delete from
\* chat_messages and leaves the message rows as they were.
C11_ReconcileOwnMessagesIsNoOp ==
    [][(/\ call'.op = "update_chat_of_game"
        /\ DesiredMessages(DesiredChat') = PersistedMessages(DesiredChat'.id))
          => (/\ chat_messages' = chat_messages
              /\ Written("chat_messages", MessageWrites)' = {})]_vars

DesiredMessageIds(chat) == {chat.messages[i].id : i \in DOMAIN chat.messages}

\* C12: after update_chat_of_game returned Ok for a desired chat with
\* number_of_messages > 0, the ids of the messages persisted for the chat
\* are the ids of the desired messages: every current message that is not
\* desired is deleted, every desired message that is not current is
\* inserted, and a message of both is neither written nor changed.
C12_MessagesOfChatEqualDesired ==
    [][(/\ call'.op = "update_chat_of_game"
        /\ call'.out.kind = "Ok"
        /\ DesiredChat'.number_of_messages > 0)
          => LET C == MessagesOfChat(DB, DesiredChat'.id)
                 D == DesiredMessageIds(DesiredChat')
             IN /\ MessagesOfChat(DB', DesiredChat'.id) = D
                /\ \A m \in C \ D : m \notin DOMAIN chat_messages'
                /\ \A m \in D \ C : m \in DOMAIN chat_messages'
                /\ \A m \in C \cap D :
                      /\ m \in DOMAIN chat_messages'
                      /\ chat_messages'[m] = chat_messages[m]
                      /\ m \notin Written("chat_messages", Mutations)']_vars

Statement(verb, table, key) == [verb |-> verb, table |-> table, key |-> key]

\* The statements of the zero-count path.
ZeroCountStatements(chat) ==
    <<Statement("DELETE", "chat_messages", chat.id), Statement("UPDATE", "chats", chat.id)>>

\* C13: update_chat_of_game with a desired number_of_messages of 0 issues
\* the delete of all rows of the chat and then the write of the counter and
\* nothing else: no read of the current messages, no insert or delete of a
\* single message, whatever the desired list holds.  When no statement
\* fails the call returns Ok, the chat has no row and its counter is 0.
C13_ZeroCountShortCircuits ==
    (/\ call.op = "update_chat_of_game"
     /\ DesiredChat.number_of_messages = 0)
        => (/\ call.log \in {SubSeq(ZeroCountStatements(DesiredChat), 1, 1),
                              ZeroCountStatements(DesiredChat)}
            /\ call.failAt = 0 => call.out.kind = "Ok"
            /\ call.out.kind = "Ok"
                  => (/\ call.log = ZeroCountStatements(DesiredChat)
                      /\ MessagesOfChat(DB, DesiredChat.id) = {}
                      /\ chats[DesiredChat.id].number_of_messages = 0
                      /\ call.ret = DesiredChat))

\* C13 happens: a zero-count call that returned Ok although its desired list
\* names a message, which is not a row of any chat afterwards.
C13_Witness ==
    /\ call.op = "update_chat_of_game"
    /\ call.out.kind = "Ok"
    /\ DesiredChat.number_of_messages = 0
    /\ DesiredChat.messages # <<>>
    /\ DesiredMessageIds(DesiredChat) \cap DOMAIN chat_messages = {}
    /\ \E m \in DOMAIN chat_messages : chat_messages[m].chat_id # DesiredChat.id

-----------------------------------------------------------------------------
(* Properties of update_game *)

\* The step of update_game that issues a statement: 1 the games row, 2 the
\* players (with the card query per player), 3 the claims (with the card
\* updates), 4 the chat.
StepOf(st) ==
    CASE st.table = "games" -> 1
      [] st.table = "players" -> 2
      [] st.table = "cards" /\ st.verb = "SELECT" -> 2
      [] st.table = "claims" -> 3
      [] st.table = "cards" /\ st.verb = "UPDATE" -> 3
      [] OTHER -> 4

InStepOrder(log) ==
    /\ log # <<>>
    /\ log[1].table = "games" /\ log[1].verb = "UPDATE"
    /\ \A i, j \in DOMAIN log : i < j => StepOf(log[i]) <= StepOf(log[j])
    /\ \A i \in DOMAIN log : i > 1 => StepOf(log[i]) > 1

\* C14: update_game updates the games row, then reconciles the players, then
\* the claims, then the chat.  The statements of the call are those of the
\* steps in this order, each step working on the store the previous one
\* left, up to and including the first step that did not return Ok; the
\* outcome of the call is the outcome of that step and no statement of a
\* later step is issued.
C14_StepsInOrderUntilFailure ==
    [][call'.op = "update_game"
          => \A s1 \in {UpdateGamesRow(NewCtx, call'.args, call'.failAt)} :
             \A s2 \in {update_players_in_game(s1.ctx, call'.args, call'.failAt)} :
             \A s3 \in {update_claims_of_game(s2.ctx, call'.args, call'.failAt)} :
             \A s4 \in {update_chat_of_game(s3.ctx, call'.args, call'.failAt)} :
             \A last \in {IF ~IsOk(s1) THEN s1
                           ELSE IF ~IsOk(s2) THEN s2
                           ELSE IF ~IsOk(s3) THEN s3
                           ELSE s4} :
                /\ InStepOrder(call'.log)
                /\ call'.log = last.ctx.log
                /\ call'.out = last.out
                /\ DB' = last.ctx.db]_vars

\* C14 happens: the claim reconciliation failed after the player
\* reconciliation had inserted a player, and no statement was issued for
\* the chat although the DTO carries a chat with a message.
C14_Witness ==
    /\ call.op = "update_game"
    /\ call.out.kind # "Ok"
    /\ call.log[Len(call.log)].table = "claims"
    /\ Written("players", {"INSERT"}) # {}
    /\ ~IsNone(call.args.chat)
    /\ DesiredChat.number_of_messages > 0
    /\ DesiredChat.messages # <<>>
    /\ \A i \in DOMAIN call.log : StepOf(call.log[i]) < 4

-----------------------------------------------------------------------------
(* Properties of the statements of add_new_message_to_chat *)

IsStatement(st, verb, table) == st.verb = verb /\ st.table = table

\* C15: in add_new_message_to_chat the write of the counter precedes the
\* insert of the message, and when the write of the counter did not succeed,
\* by an executor error or because it updated no chat row, the call returns
\* an error and the message row is not inserted.
C15_NoInsertWithoutCounterWrite ==
    /\ [](call.op = "add_new_message_to_chat"
             => \A i \in DOMAIN call.log :
                   IsStatement(call.log[i], "INSERT", "chat_messages")
                       => /\ i > 1
                          /\ IsStatement(call.log[i - 1], "UPDATE", "chats"))
    /\ [][(/\ Suspended("add_new_message_to_chat", 1)
            /\ Len(call'.log) = 2
            /\ (call'.failAt = 2 \/ call.args.chat_id \notin DOMAIN chats))
              => (/\ call'.out.kind \in ErrorKinds
                  /\ chat_messages' = chat_messages)]_vars

\* The call in flight is remove_message_from_chat and wrote its counter in
\* this step.
RemoveWroteCount ==
    /\ call.op = "remove_message_from_chat"
    /\ Len(call.log) = 1
    /\ Len(call'.log) = 2
    /\ call'.failAt = 0
    /\ call.args.chat_id \in DOMAIN chats

-----------------------------------------------------------------------------
(* Properties of the mandatory fields of the DTO *)

\* C17: update_players_in_game with a present, empty players list is
\* rejected with a database error of status Bad Request; the call issues no
\* statement, so no player is read, deleted or inserted, and the players
\* are as they were.
C17_EmptyPlayerListRejected ==
    [][(call'.op = "update_players_in_game" /\ call'.args.players = Some(<<>>))
          => (/\ call'.out.kind = "DatabaseQueryError"
              /\ call'.out.status_code = "BAD_REQUEST"
              /\ call'.log = <<>>
              /\ players' = players)]_vars

\* C17 happens: the empty list was rejected for a game that has players.
C17_Witness ==
    /\ call.op = "update_players_in_game"
    /\ call.args.players = Some(<<>>)
    /\ call.out.status_code = "BAD_REQUEST"
    /\ PlayersOf(DB, call.args.id) # {}

\* The field of the DTO that a reconciliation step works from.
FieldOfStep ==
    [update_players_in_game |-> "players", update_claims_of_game |-> "claims",
     update_chat_of_game |-> "chat"]

ChildTables == {"players", "claims", "chats", "chat_messages"}

\* C18: a reconciliation step (update_players_in_game, update_claims_of_game,
\* update_chat_of_game) whose field of the DTO is None returns an error of
\* status Internal Server Error and issues no statement on the players,
\* claims, chats or chat_messages tables.
C18_AbsentFieldIsInternalError ==
    (call.op \in DOMAIN FieldOfStep /\ call.args[FieldOfStep[call.op]] = None)
        => /\ call.out.kind = "DatabaseQueryError"
           /\ call.out.status_code = "INTERNAL_SERVER_ERROR"
           /\ \A i \in DOMAIN call.log : call.log[i].table \notin ChildTables

\* C18 happens: the claims step was refused for its absent field while the
\* game has a player holding a claim, and the other two fields were present.
C18_Witness ==
    /\ call.op = "update_claims_of_game"
    /\ call.args.claims = None
    /\ call.args.players # None
    /\ call.args.chat # None
    /\ call.out.status_code = "INTERNAL_SERVER_ERROR"
    /\ claims # <<>>

-----------------------------------------------------------------------------
(* Properties of the failures of update_game *)

\* C19: update_game for an id that has no row in games fails with a database
\* error of status Internal Server Error; the call issues no statement on a
\* table other than games, so no player, claim or chat is read or written,
\* and the store is as it was.
C19_UnknownGameStopsAtGamesRow ==
    [][(call'.op = "update_game" /\ call'.args.id \notin DOMAIN games)
          => (/\ call'.out.kind = "DatabaseQueryError"
              /\ call'.out.status_code = "INTERNAL_SERVER_ERROR"
              /\ \A i \in DOMAIN call'.log : call'.log[i].table = "games"
              /\ DB' = DB)]_vars

\* C19 happens: the statement on games ran for the unknown id, handed no row
\* back, and the DTO carried players, claims and a chat to reconcile.
C19_Witness ==
    /\ call.op = "update_game"
    /\ call.args.id \notin DOMAIN games
    /\ call.failAt = 0
    /\ call.out.message = "Failed to update game in the database"
    /\ call.args.players \notin {None, Some(<<>>)}
    /\ call.args.claims \notin {None, Some(<<>>)}
    /\ call.args.chat # None

\* The statements of the call on the players table that ran to their end.
AppliedPlayerStatements(record) ==
    {i \in DOMAIN record.log : record.log[i].table = "players" /\ i # record.failAt}

\* C20: update_game does not roll back. When the statement on the games row
\* succeeded and a later step fails, the call returns the error, the games
\* row holds the scalar update, every player the call deleted is gone and
\* every player it inserted is persisted.
C20_NoRollbackAfterLaterFailure ==
    [][(call'.op = "update_game" /\ call'.out.kind # "Ok")
          => \A s1 \in {UpdateGamesRow(NewCtx, call'.args, call'.failAt)} :
                IsOk(s1)
                   => /\ games' = s1.ctx.db.games
                      /\ \A i \in AppliedPlayerStatements(call') :
                            /\ call'.log[i].verb = "DELETE"
                                   => call'.log[i].key \notin DOMAIN players'
                            /\ call'.log[i].verb = "INSERT"
                                   => call'.log[i].key \in DOMAIN players']_vars

\* C20 happens: a statement of the claim reconciliation failed after the
\* call had changed the round number, deleted a player and inserted another.
C20_Witness ==
    /\ call.op = "update_game"
    /\ call.out.kind # "Ok"
    /\ call.failAt \in DOMAIN call.log
    /\ call.log[call.failAt].table = "claims"
    /\ call.args.round_number = Some(1)
    /\ games[call.args.id].round_number = 1
    /\ \E i, j \in AppliedPlayerStatements(call) :
          /\ call.log[i].verb = "DELETE"
          /\ call.log[j].verb = "INSERT"
          /\ call.log[i].key \notin DOMAIN players
          /\ call.log[j].key \in DOMAIN players

-----------------------------------------------------------------------------
(* Properties of the reads *)

\* C21: get_game_by_id and get_all_games are pure reads: whatever the store
\* holds and whatever the call returns, games, players, claims, chats,
\* chat_messages and cards are after the call what they were before it.
C21_ReadsLeaveStoreUnchanged ==
    [][call'.op \in {"get_game_by_id", "get_all_games"} => DB' = DB]_vars

\* C21 happens: get_all_games returned Ok from a store that holds players,
\* claims, messages and an owned card.
C21_Witness ==
    /\ call.op = "get_all_games"
    /\ call.out.kind = "Ok"
    /\ Len(call.ret) = 2
    /\ DOMAIN players # {}
    /\ DOMAIN claims # {}
    /\ DOMAIN chat_messages # {}
    /\ \E k \in DOMAIN cards : cards[k].player_id # NONE

\* C22: get_game_by_id for an id without a row in games returns a database
\* error of status Not Found; when the executor fails that same query the
\* call returns an error of status Internal Server Error, whether the row
\* exists or not.  Neither case is reported with the status of the other.
C22_MissingRowIsNotFound ==
    call.op = "get_game_by_id"
        => /\ (call.args.game_id \notin DOMAIN games /\ call.failAt # 1)
                  => /\ call.out.kind = "DatabaseQueryError"
                     /\ call.out.status_code = "NOT_FOUND"
                     /\ Len(call.log) = 1
           /\ call.failAt = 1
                  => /\ call.out.kind = "DatabaseQueryError"
                     /\ call.out.status_code = "INTERNAL_SERVER_ERROR"
                     /\ Len(call.log) = 1

\* C22 happens: the query ran for an id that has no row while other games
\* exist.
C22_Witness ==
    /\ call.op = "get_game_by_id"
    /\ call.args.game_id \notin DOMAIN games
    /\ DOMAIN games # {}
    /\ call.failAt = 0
    /\ call.out.status_code = "NOT_FOUND"

\* C23: get_chat given both a chat_id and a game_id selects the chat by the
\* game_id alone: it returns what it returns for the game_id without a
\* chat_id, and on Ok the chat of that game, whatever the chat_id, with
\* messages holding every message row of the chat once and no other row.
C23_GetChatPrefersGameId ==
    (call.op = "get_chat" /\ call.args.chat_id # NONE /\ call.args.game_id # NONE)
        => /\ \A r \in {get_chat(NewCtx, NONE, call.args.game_id, call.failAt)} :
                 call.out = r.out /\ call.ret = r.val
           /\ call.out.kind = "Ok"
                 => /\ chats[call.ret.id].game_id = call.args.game_id
                    /\ {call.ret.messages[i].id : i \in DOMAIN call.ret.messages}
                           = MessagesOfChat(DB, call.ret.id)
                    /\ Len(call.ret.messages) = Cardinality(MessagesOfChat(DB, call.ret.id))

\* C23 happens: the chat_id names the chat of another game, and the chat of
\* the game_id is returned with its two messages.
C23_Witness ==
    /\ call.op = "get_chat"
    /\ call.args.chat_id \in DOMAIN chats
    /\ chats[call.args.chat_id].game_id # call.args.game_id
    /\ call.out.kind = "Ok"
    /\ call.ret.id # call.args.chat_id
    /\ Len(call.ret.messages) = 2

\* The claims handed back by the call: those of get_all_claims, or those of
\* the games of get_game_by_id and get_all_games.
ReturnedClaims ==
    IF call.op = "get_all_claims" THEN {call.ret[i] : i \in DOMAIN call.ret}
    ELSE IF call.op = "get_game_by_id" THEN {call.ret.claims[i] : i \in DOMAIN call.ret.claims}
    ELSE UNION {{call.ret[g].claims[i] : i \in DOMAIN call.ret[g].claims} :
                  g \in DOMAIN call.ret}

\* C24: every claim returned by get_all_claims, and so every claim of a game
\* returned by get_game_by_id or get_all_games, carries in cards the cards
\* that the claim owns in the card store.
C24_ClaimsCarryOwnedCards ==
    (call.op \in {"get_all_claims", "get_game_by_id", "get_all_games"}
         /\ call.out.kind = "Ok")
        => \A claim \in ReturnedClaims :
              {claim.cards[i] : i \in DOMAIN claim.cards}
                  = CardsOwnedBy(DB, claim.id, NONE)

-----------------------------------------------------------------------------
(* Properties of the propagation of errors *)

\* update_game handed back a database error with the message and the status
\* of the result r of a sub-repository call.
Surfaced(r) ==
    /\ call'.out.kind = "DatabaseQueryError"
    /\ call'.out.message = r.out.message
    /\ call'.out.status_code = r.out.status_code

\* The executor as it stood before the last statement of the call, which
\* left the store as it was.
BeforeLastStatement ==
    [db |-> DB', n |-> Len(call'.log) - 1,
     log |-> SubSeq(call'.log, 1, Len(call'.log) - 1)]

\* The desired player with the id.
DesiredPlayer(game_data, id) ==
    LET list == Unwrap(game_data.players)
    IN list[CHOOSE i \in DOMAIN list : list[i].id = id]

\* C25: an error returned by a sub-repository call of update_players_in_game
\* (get_all_players, delete_player, add_player) or of update_claims_of_game
\* (create_claim, get_all_claims) is what update_game returns: an error with
\* the message and the status of the error of the sub-repository.
C25_SubRepositoryErrorsSurface ==
    [][call'.op = "update_game"
          => \A s1 \in {UpdateGamesRow(NewCtx, call'.args, call'.failAt)} :
               (IsOk(s1) /\ call'.args.players \notin {None, Some(<<>>)})
                  => /\ \A r \in {get_all_players(s1.ctx, call'.args.id, call'.failAt)} :
                           ~IsOk(r) => Surfaced(r)
                     /\ \A s2 \in {update_players_in_game(s1.ctx, call'.args,
                                                            call'.failAt)} :
                           IF ~IsOk(s2)
                           THEN \A last \in {call'.log[Len(call'.log)]} :
                                   /\ IsStatement(last, "DELETE", "players")
                                         => \A r \in {delete_player(BeforeLastStatement,
                                                                      last.key,
                                                                      call'.failAt)} :
                                               ~IsOk(r) /\ Surfaced(r)
                                   /\ IsStatement(last, "INSERT", "players")
                                         => \A r \in {add_player(BeforeLastStatement,
                                                                   DesiredPlayer(call'.args,
                                                                                 last.key),
                                                                   call'.failAt)} :
                                               ~IsOk(r) /\ Surfaced(r)
                           ELSE (/\ ~IsNone(call'.args.claims)
                                 /\ Len(Unwrap(call'.args.claims)) >= 2)
                                   => \A r1 \in {create_claim(s2.ctx,
                                                                Unwrap(call'.args.claims)[2],
                                                                call'.failAt)} :
                                         IF ~IsOk(r1) THEN Surfaced(r1)
                                         ELSE \A r2 \in {get_all_claims(r1.ctx, call'.args.id,
                                                                         NONE, call'.failAt)} :
                                                 ~IsOk(r2) => Surfaced(r2)]_vars

\* C25 happens: an update_card of create_claim failed in the executor after
\* the players had been reconciled, and update_game returned that error.
C25_Witness ==
    /\ call.op = "update_game"
    /\ call.failAt \in DOMAIN call.log
    /\ IsStatement(call.log[call.failAt], "UPDATE", "cards")
    /\ Written("players", {"INSERT"}) # {}
    /\ call.out.kind = "DatabaseQueryError"
    /\ call.out.message = "executor"
    /\ call.out.status_code = "INTERNAL_SERVER_ERROR"

-----------------------------------------------------------------------------
(* Properties of two concurrent add_new_message_to_chat calls *)

\* C26: two requests run add_new_message_to_chat on the same chat, their
\* statements interleaved in any order; once both calls have returned Ok,
\* the number_of_messages of the chat is the number of its message rows.
C26_PairCountMatchesRows ==
    (/\ \A who \in Requests :
           call[who].op = "add_new_message_to_chat" /\ call[who].out.kind = "Ok"
     /\ call[1].args.chat_id = call[2].args.chat_id)
        => chats[call[1].args.chat_id].number_of_messages = RowCount(call[1].args.chat_id)

-----------------------------------------------------------------------------
(* Properties of the first players of a game *)

\* C27: for a game that has no players and a non-empty desired list D,
\* update_players_in_game, with no failure of the executor, returns Ok and
\* every player of D is persisted.
C27_FirstPlayersAreInserted ==
    [][(/\ call'.op = "update_players_in_game"
        /\ call'.failAt = 0
        /\ call'.args.players \notin {None, Some(<<>>)}
        /\ PlayersOf(DB, call'.args.id) = {})
          => (/\ call'.out.kind = "Ok"
              /\ DesiredIds(call'.args) \subseteq DOMAIN players')]_vars

-----------------------------------------------------------------------------
(* Properties of sequences of add_new_message_to_chat calls *)

\* C28: after any sequence of add_new_message_to_chat calls, one after the
\* other, each succeeding or failing at any of its statements and each with
\* a message that carries the chat_id of the call, no chat has more message
\* rows than its number_of_messages says.
C28_RowsNeverExceedCount ==
    \A c \in DOMAIN chats : RowCount(c) <= chats[c].number_of_messages

\* C28 happens: the insert of a call failed after its counter write, on a
\* chat that holds messages of earlier calls.
C28_Witness ==
    /\ call.op = "add_new_message_to_chat"
    /\ call.failAt = 3
    /\ call.out.kind # "Ok"
    /\ RowCount(call.args.chat_id) >= 1
    /\ RowCount(call.args.chat_id) < chats[call.args.chat_id].number_of_messages

-----------------------------------------------------------------------------
(* Properties of the chat a message belongs to *)

\* C29: when remove_message_from_chat returns the error of a message_id
\* that has no row, the number_of_messages of every chat is after the call
\* what it was before.
C29_MissingMessageKeepsCount ==
    [][(/\ call'.op = "remove_message_from_chat"
        /\ call'.args.message_id \notin DOMAIN chat_messages
        /\ call'.out.message = "Message not found")
          => chats' = chats]_vars

\* The chats whose counter the step changes.
CountChanged == {c \in DOMAIN chats : chats'[c] # chats[c]}

\* The chats that lose or gain a message row by the step.
RowsChanged == {c \in ChatIds : MessagesOfChat(DB', c) # MessagesOfChat(DB, c)}

\* The call deletes only rows of the chat it names.
RemoveDeletesRowOfChat ==
    call'.op = "remove_message_from_chat"
        => \A m \in DOMAIN chat_messages \ DOMAIN chat_messages' :
              chat_messages[m].chat_id = call'.args.chat_id

\* The call increments the counter of the chat of the row it inserts.
AddCountsChatOfRow ==
    call'.op = "add_new_message_to_chat"
        => \A m \in DOMAIN chat_messages' \ DOMAIN chat_messages :
              \A c \in {chat_messages'[m].chat_id} :
                 chats'[c].number_of_messages = chats[c].number_of_messages + 1

\* C30: remove_message_from_chat deletes a message row only if the row's
\* chat_id is the chat_id of the call, add_new_message_to_chat increments
\* the counter of the chat that the inserted row belongs to, and no call
\* changes the counter of one chat and the rows of another.
C30_CounterAndRowsOfOneChat ==
    [][call'.op \in AddOrRemove
          => /\ RemoveDeletesRowOfChat
             /\ AddCountsChatOfRow
             /\ RowsChanged \subseteq CountChanged]_vars

-----------------------------------------------------------------------------
(* Properties of the chat returned by the reconciliation *)

\* C31: the chat returned by update_chat_of_game with Ok is the desired chat
\* of the DTO as given, and the ids of its messages are the ids of the
\* message rows persisted for the chat after the call.
C31_ReturnedChatIsPersisted ==
    (call.op = "update_chat_of_game" /\ call.out.kind = "Ok")
        => /\ call.ret = DesiredChat
           /\ DesiredMessageIds(call.ret) = MessagesOfChat(DB, call.ret.id)

-----------------------------------------------------------------------------
(* Properties of the order of deletes and inserts *)

\* No statement of the second kind is issued before one of the first kind.
AllBefore(log, verb1, verb2, table) ==
    \A i, j \in DOMAIN log :
        (IsStatement(log[i], verb2, table) /\ IsStatement(log[j], verb1, table)) => j < i

\* C32: update_players_in_game issues every delete of a player before any
\* insert of a player.  When a delete fails the call returns the error, no
\* player has been inserted, and the players deleted before stay deleted.
C32_PlayerDeletesBeforeInserts ==
    [][call'.op = "update_players_in_game"
          => /\ AllBefore(call'.log, "DELETE", "INSERT", "players")
             /\ (/\ call'.failAt \in DOMAIN call'.log
                 /\ IsStatement(call'.log[call'.failAt], "DELETE", "players"))
                   => /\ call'.out.kind = "DatabaseQueryError"
                      /\ Written("players", {"INSERT"})' = {}
                      /\ DOMAIN players' \subseteq DOMAIN players
                      /\ \A i \in 1 .. call'.failAt - 1 :
                            IsStatement(call'.log[i], "DELETE", "players")
                               => call'.log[i].key \notin DOMAIN players']_vars

\* C32 happens: the second delete of a call failed, the first one is
\* applied, and the desired list holds a player that was to be inserted.
C32_Witness ==
    /\ call.op = "update_players_in_game"
    /\ call.failAt \in DOMAIN call.log
    /\ IsStatement(call.log[call.failAt], "DELETE", "players")
    /\ \E i \in 1 .. call.failAt - 1 :
          /\ IsStatement(call.log[i], "DELETE", "players")
          /\ call.log[i].key \notin DOMAIN players
    /\ DesiredIds(call.args) \ DOMAIN players # {}
    /\ call.log[call.failAt].key \in DOMAIN players

CountOf(log, verb, table) ==
    Cardinality({i \in DOMAIN log : IsStatement(log[i], verb, table)})

\* C33: with a desired number_of_messages above 0, update_chat_of_game reads
\* the messages of the chat once, as its first statement; the deletes are of
\* messages that this read returned and that are not desired, the inserts of
\* desired messages that this read did not return; every delete comes before
\* any insert, and a failing delete makes the call return the error with no
\* message inserted.
C33_OneReadDeletesBeforeInserts ==
    [][(/\ call'.op = "update_chat_of_game"
        /\ ~IsNone(call'.args.chat)
        /\ DesiredChat'.number_of_messages > 0)
          => /\ call'.log # <<>>
             /\ IsStatement(call'.log[1], "SELECT", "chat_messages")
             /\ CountOf(call'.log, "SELECT", "chat_messages") = 1
             /\ Written("chat_messages", {"DELETE"})'
                   \subseteq MessagesOfChat(DB, DesiredChat'.id)
                                \ DesiredMessageIds(DesiredChat')
             /\ Written("chat_messages", {"INSERT"})'
                   \subseteq DesiredMessageIds(DesiredChat')
                                \ MessagesOfChat(DB, DesiredChat'.id)
             /\ call'.out.kind = "Ok"
                   => /\ Written("chat_messages", {"DELETE"})'
                           = MessagesOfChat(DB, DesiredChat'.id)
                               \ DesiredMessageIds(DesiredChat')
                      /\ Written("chat_messages", {"INSERT"})'
                           = DesiredMessageIds(DesiredChat')
                               \ MessagesOfChat(DB, DesiredChat'.id)
             /\ AllBefore(call'.log, "DELETE", "INSERT", "chat_messages")
             /\ (/\ call'.failAt \in DOMAIN call'.log
                 /\ IsStatement(call'.log[call'.failAt], "DELETE", "chat_messages"))
                   => /\ call'.out.kind = "DatabaseQueryError"
                      /\ Written("chat_messages", {"INSERT"})' = {}
                      /\ DOMAIN chat_messages' \subseteq DOMAIN chat_messages]_vars

\* C33 happens: a delete of the diff path failed while the desired list
\* holds a message that is not a row, which stays absent.
C33_Witness ==
    /\ call.op = "update_chat_of_game"
    /\ ~IsNone(call.args.chat)
    /\ DesiredChat.number_of_messages > 0
    /\ call.failAt \in DOMAIN call.log
    /\ IsStatement(call.log[call.failAt], "DELETE", "chat_messages")
    /\ call.out.kind = "DatabaseQueryError"
    /\ DesiredMessageIds(DesiredChat) \ DOMAIN chat_messages # {}

-----------------------------------------------------------------------------
(* Properties of two reconciliations of the players of one game *)

BothReturnedOk ==
    \A who \in Requests :
        call[who].op = "update_players_in_game" /\ call[who].out.kind = "Ok"

DesiredOf(who) == DesiredIds(call[who].args)

\* C34 as stated: after two update_players_in_game calls for the game both
\* returned Ok, the players persisted for the game are the desired players
\* of one of the two.
C34_PlayersAreOneDesiredList ==
    BothReturnedOk => PlayersOf(DB, PairGame) \in {DesiredOf(1), DesiredOf(2)}

\* C34 amended: after both calls returned Ok every player persisted for the
\* game is desired by one of the two calls and every player desired by both
\* is persisted; the set can differ from both desired sets.
C34_PlayersBetweenMeetAndJoin ==
    BothReturnedOk
        => /\ PlayersOf(DB, PairGame) \subseteq DesiredOf(1) \cup DesiredOf(2)
           /\ DesiredOf(1) \cap DesiredOf(2) \subseteq PlayersOf(DB, PairGame)

\* C34 happens: both calls returned Ok, each one having written the store,
\* and the players of the game are the desired players of neither.
C34_Witness ==
    /\ BothReturnedOk
    /\ \A who \in Requests : Len(call[who].log) > 1
    /\ PlayersOf(DB, PairGame) \notin {DesiredOf(1), DesiredOf(2)}
    /\ PlayersOf(DB, PairGame) = DesiredOf(1) \cup DesiredOf(2)

-----------------------------------------------------------------------------
(* Properties of create_claim *)

\* C35: when the INSERT of the claim row fails, create_claim, called by
\* update_claims_of_game, returns an error and the owning claim of every
\* card is as it was before the call.
C35_CardsKeptWhenInsertFails ==
    [][\A i \in DOMAIN call'.log :
          (/\ call'.op = "update_claims_of_game"
           /\ IsStatement(call'.log[i], "INSERT", "claims")
           /\ call'.failAt = i)
             => (/\ call'.out.kind \in ErrorKinds
                 /\ cards' = cards)]_vars

-----------------------------------------------------------------------------
(* Properties of update_game without a scalar field *)

NoScalarField(game_data) ==
    /\ IsNone(game_data.state)
    /\ IsNone(game_data.round_number)
    /\ IsNone(game_data.card_to_play)
    /\ IsNone(game_data.which_player_turn)

\* C36: update_game for an existing game with none of state, round_number,
\* card_to_play and which_player_turn, no statement failing in the executor,
\* issues a statement that parses, leaves the games row as it was and does
\* not stop with the error of the games statement.
C36_NoScalarFieldStillUpdates ==
    [][(/\ call'.op = "update_game"
        /\ NoScalarField(call'.args)
        /\ call'.args.id \in DOMAIN games
        /\ call'.failAt = 0)
          => /\ WellFormed(get_update_query_string_and_bindings(call'.args).query)
             /\ games'[call'.args.id] = games[call'.args.id]
             /\ ~(/\ Len(call'.log) = 1
                  /\ call'.out.kind = "DatabaseQueryError"
                  /\ call'.out.message = "executor")]_vars

-----------------------------------------------------------------------------
(* Properties of the collections fetched for a game *)

IdsOf(list) == {list[i].id : i \in DOMAIN list}

\* C37: get_game_by_id for a game that has a row and a chat, no statement
\* failing in the executor, returns Ok with the players and the claims
\* persisted for the game, however many they are.
C37_GameWithChatIsReturned ==
    (/\ call.op = "get_game_by_id"
     /\ call.args.game_id \in DOMAIN games
     /\ SelectChats(DB, call.args.game_id, NONE) # {}
     /\ call.failAt = 0)
        => /\ call.out.kind = "Ok"
           /\ IdsOf(call.ret.players) = PlayersOf(DB, call.args.game_id)
           /\ IdsOf(call.ret.claims) = ClaimsOf(DB, call.args.game_id, NONE)

\* The collection a statement of a read of games belongs to: 1 the chat
\* with its messages, 2 the players with their cards, 3 the claims.
CollectionOf(st) ==
    CASE st.table \in {"chats", "chat_messages"} -> 1
      [] st.table \in {"players", "cards"} -> 2
      [] OTHER -> 3

GameReads == {"get_game_by_id", "get_all_games"}

\* The games whose collections the call fetches.
GamesRead ==
    IF call.op = "get_game_by_id" THEN {call.args.game_id} \cap DOMAIN games
    ELSE DOMAIN games

\* C38: get_game_by_id and get_all_games fetch the chat of a game before its
\* players and its claims: the first statement after the one on games is on
\* chats, the statements for one game go from the chat to the players to
\* the claims, and when the games read have neither a chat nor a player the
\* error returned is the one of the chat.
C38_ChatThenPlayersThenClaims ==
    call.op \in GameReads
        => /\ Len(call.log) >= 2 => IsStatement(call.log[2], "SELECT", "chats")
           /\ call.op = "get_game_by_id"
                 => \A i, j \in 2 .. Len(call.log) :
                       i < j => CollectionOf(call.log[i]) <= CollectionOf(call.log[j])
           /\ (/\ call.failAt = 0
               /\ GamesRead # {}
               /\ \A g \in GamesRead :
                     SelectChats(DB, g, NONE) = {} /\ PlayersOf(DB, g) = {})
                 => \A g \in GamesRead : call.out = get_chat(NewCtx, NONE, g, 0).out

-----------------------------------------------------------------------------
(* Properties of the optional filters of ChatRepository *)

FilterOps ==
    {"get_chat", "delete_chat", "get_number_of_messages_of_chat",
     "update_number_of_messages_of_chat"}

\* C39: get_chat, delete_chat, get_number_of_messages_of_chat and
\* update_number_of_messages_of_chat called with neither a chat_id nor a
\* game_id return an error without issuing a statement, and the chats stay
\* as they were.
C39_NoFilterIsAnError ==
    [][(/\ call'.op \in FilterOps
        /\ call'.args.chat_id = NONE
        /\ call'.args.game_id = NONE)
          => /\ call'.out.kind \in ErrorKinds
             /\ call'.log = <<>>
             /\ chats' = chats]_vars

====
